---- MODULE Spec2Model ----
(***************************************************************************)
(* Model of the shader-test module's navigation core (src/src/lib.rs):     *)
(* the MaterialTest registry (MaterialTestIdHolder, MaterialTest::new),    *)
(* the load gate (handle_material_id_from_text_id_events,                  *)
(* handle_assets_loaded), the View state machine (View::change_view) and   *)
(* the input router (handle_inputs).                                       *)
(*                                                                         *)
(* Strings are sequences of bytes (97 = "a", 48 = "0", 0 = NUL).  An       *)
(* Option<T> is a sequence of length at most one: <<>> is None, <<x>> is   *)
(* Some(x).  Systems run once per frame in the order they are declared in  *)
(* lib.rs (build.rs generates the system table from that file); a          *)
(* disabled system is skipped.                                             *)
(***************************************************************************)
EXTENDS Integers, Sequences, FiniteSets, Bags, TLC

VARIABLES
    pc,         \* the system the frame loop runs next
    holder,     \* MaterialTestIdHolder: next_id, taken_test_names
    tests,      \* the MaterialTest components, in spawn (= query) order
    regLog,     \* materials_setup's locals: per registration, desired name, returned name, id
    view,       \* the View resource
    entities,   \* displayed UI and test objects, in spawn (= query) order
    markers,    \* MaterialTextureAsset / MaterialTextAsset / MaterialAsset marker entities
    enabled,    \* which systems are enabled
    postprocesses, \* WorldRenderManager's post-processing effects (material ids)
    env,        \* asset managers outside the module: what is loaded, tickets issued
    last,       \* the system that ran last, who made the last request and where
    wrap,       \* wrap_index: a start index i, a shift d, a length n, the results
    conv        \* text.rs: a string s, an array size n, the array and the string read back

vars == <<pc, holder, tests, regLog, view, entities, markers, enabled,
          postprocesses, env, last, wrap, conv>>

-----------------------------------------------------------------------------
(* Bounds of the model *)

MaxRegs == 3           \* registrations explored by SpecRegistry
MaxTests == 4          \* registrations explored by Spec
MaxGateTests == 2      \* registrations explored by SpecGate
MaxKeys == 2           \* keys pressed in one frame
MaxEvents == 2         \* MaterialIdFromTextId events delivered per run
MaxMaterials == 2      \* material ids the material manager hands out
MaxTextures == 1       \* textures materials_setup requests
MaxShift == 7          \* |delta| explored for wrap_index
MaxLen == 5            \* list lengths explored for wrap_index
MaxStr == 4            \* bytes of a string given to str_to_u8_array
MaxN == 5              \* sizes N of the array of str_to_u8_array::<N>
MaxViewTests == 2      \* registrations explored by SpecView
MaxLoadTests == 1      \* registrations explored by SpecLoad
MaxLoadEvents == 2     \* MaterialIdFromTextId events delivered per run of SpecLoad

(* Program constants *)

NameLen == 256         \* MaterialTest.name: [u8; 256]
SlotCap == 25          \* MaterialTest.maybe_loaded_materials: [MaybeLoadedMaterial; 25]
TextLen == 256         \* TextRender.text, filled by str_to_u8_array
MISSING_TEXT_ID == 2147483647 \* stands for game_asset's reserved TextId, which no ticket carries
DefaultSpriteMaterial == 0 \* DefaultMaterials::Sprite.material_id()

None == <<>>
Some(x) == <<x>>
IsSome(o) == Len(o) = 1
Unwrap(o) == o[1]

Range(s) == {s[i] : i \in 1..Len(s)}

MaterialTypes == {"Sprite", "PostProcessing"}

-----------------------------------------------------------------------------
(* text.rs *)

\* A [u8; N] is written as its bytes up to the last non-zero one: the bytes
\* after it, up to N, are the zero padding.
RECURSIVE StripPadding(_)
StripPadding(a) ==
    IF a # <<>> /\ a[Len(a)] = 0 THEN StripPadding(SubSeq(a, 1, Len(a) - 1)) ELSE a

\* str_to_u8_array::<N>: the first N bytes of the string, zero padded to N.
str_to_u8_array(N, str) ==
    StripPadding(IF Len(str) <= N THEN str ELSE SubSeq(str, 1, N))

\* from_utf8 succeeds.  The model's alphabet is ASCII and two-byte characters:
\* a lead byte (194..223) must be followed by a continuation byte (128..191),
\* a continuation byte must follow a lead byte, any other byte >= 128 is invalid.
ValidUtf8(s) ==
    \A i \in 1..Len(s) :
        \/ s[i] < 128
        \/ s[i] \in 194..223 /\ i < Len(s) /\ s[i + 1] \in 128..191
        \/ s[i] \in 128..191 /\ i > 1 /\ s[i - 1] \in 194..223

\* str::trim_matches('\0'): strip NULs from both ends.
trim_matches_nul(s) ==
    LET nz == {i \in 1..Len(s) : s[i] # 0}
    IN  IF nz = {} THEN <<>>
        ELSE SubSeq(s, CHOOSE i \in nz : \A j \in nz : i <= j,
                       CHOOSE i \in nz : \A j \in nz : i >= j)

\* u8_array_to_str without the trim: the padding is read back too.
u8_array_to_str_untrimmed(u8_slice) ==
    IF ValidUtf8(u8_slice) THEN Some(u8_slice) ELSE None

\* u8_array_to_str: Err (None here) on invalid UTF-8, else the trimmed string.
u8_array_to_str(u8_slice) ==
    IF ValidUtf8(u8_slice) THEN Some(trim_matches_nul(u8_slice)) ELSE None

\* title_from_material_type: "Sprite Material" / "Post Processing Material"
title_from_material_type(material_type) ==
    IF material_type = "Sprite"
    THEN <<83, 112, 114, 105, 116, 101, 32, 77, 97, 116, 101, 114, 105, 97, 108>>
    ELSE <<80, 111, 115, 116, 32, 80, 114, 111, 99, 101, 115, 115, 105, 110, 103, 32, 77, 97, 116, 101, 114, 105, 97, 108>>

LoadingText == <<76, 111, 97, 100, 105, 110, 103, 46, 46, 46>>          \* "Loading..."
ChooseText == <<67, 104, 111, 111, 115, 101, 32, 77, 97, 116, 101, 114, 105, 97, 108, 32, 84, 121, 112, 101, 58>>           \* "Choose Material Type:"
FpsText == <<70, 80, 83, 58, 32>>              \* "FPS: "

-----------------------------------------------------------------------------
(* array.rs *)

\* MaybeLoadedMaterial::default(): the Empty slot.
DefaultSlot ==
    [material_type |-> "Sprite", material_id |-> None, text_id |-> MISSING_TEXT_ID]

\* A [MaybeLoadedMaterial; N] is written as its slots up to the last one that
\* is not the default: the slots after it, up to N, are default slots.
RECURSIVE StripDefault(_)
StripDefault(a) ==
    IF a # <<>> /\ a[Len(a)] = DefaultSlot
    THEN StripDefault(SubSeq(a, 1, Len(a) - 1)) ELSE a

\* The i-th slot (from 1) of such an array.
SlotAt(a, i) == IF i <= Len(a) THEN a[i] ELSE DefaultSlot

\* The places of such an array of SlotCap slots that need looking at: the
\* slots written and the first default slot after them, which is as every
\* slot after it.
SlotIndexes(a) == 1..(IF Len(a) < SlotCap THEN Len(a) + 1 ELSE SlotCap)

\* An array filled from its second place on.
array_from_iterator_from_second(N, items) ==
    StripDefault(<<DefaultSlot>>
                 \o (IF Len(items) <= N - 1 THEN items ELSE SubSeq(items, 1, N - 1)))

\* array_from_iterator::<N>: the first N items, the rest default.
array_from_iterator(N, items) ==
    StripDefault(IF Len(items) <= N THEN items ELSE SubSeq(items, 1, N))

-----------------------------------------------------------------------------
(* MaybeLoadedMaterial *)

\* MaybeLoadedMaterial::new
NewSlot(material_type, text_id) ==
    [material_type |-> material_type, material_id |-> None, text_id |-> text_id]

\* MaybeLoadedMaterial::new_material_loaded
NewLoadedSlot(material_type, material_id) ==
    [material_type |-> material_type, material_id |-> Some(material_id),
     text_id |-> MISSING_TEXT_ID]

-----------------------------------------------------------------------------
(* MaterialTestIdHolder *)

\* The String "{desired_name}0".
Suffixed(desired_name) == desired_name \o <<48>>

\* A mutant: one suffix is appended without checking the result again.
validate_new_name_once(taken_test_names, desired_name) ==
    IF \E i \in 1..Len(taken_test_names) : taken_test_names[i] = desired_name
    THEN Suffixed(desired_name)
    ELSE desired_name

\* validate_new_name: the name it returns (and pushes on taken_test_names).
RECURSIVE validate_new_name(_, _)
validate_new_name(taken_test_names, desired_name) ==
    IF \E i \in 1..Len(taken_test_names) : taken_test_names[i] = desired_name
    THEN validate_new_name(taken_test_names, Suffixed(desired_name))
    ELSE desired_name

\* A mutant: the holder hands out next_id + 1.
get_next_id_off_by_one(h) == h.next_id + 1

\* get_next_id: the id it returns; next_id becomes increment_id() of it.
get_next_id(h) == h.next_id

\* MaterialTest::new: the component built, given the name validate_new_name returned.
NewMaterialTest(name, startup_system, slots, material_type, h) ==
    [id |-> get_next_id(h),
     name |-> str_to_u8_array(NameLen, name),
     maybe_loaded_materials |-> array_from_iterator(SlotCap, slots),
     material_type |-> material_type,
     startup_system_name |-> startup_system]

\* MaterialTest::name(): u8_array_to_str(&self.name).unwrap()
TestName(t) == Unwrap(u8_array_to_str(t.name))

-----------------------------------------------------------------------------
(* TransitionTo and ViewState: every variant carries the same fields, the   *)
(* ones a variant does not have hold "-" / None / <<>>.                     *)

ToLoading == [tag |-> "Loading", material_type |-> "-", id |-> None]
ToMainView == [tag |-> "MainView", material_type |-> "-", id |-> None]
ToMaterialSelection(material_type, maybe_id) ==
    [tag |-> "MaterialSelection", material_type |-> material_type, id |-> maybe_id]
ToMaterial(material_type, id) ==
    [tag |-> "Material", material_type |-> material_type, id |-> Some(id)]

Loading ==
    [tag |-> "Loading", material_type |-> "-", selected |-> None, order |-> <<>>,
     id |-> None, name |-> <<>>]
MainView(material_type) ==
    [tag |-> "MainView", material_type |-> material_type, selected |-> None,
     order |-> <<>>, id |-> None, name |-> <<>>]
MaterialSelection(material_type, selected, order) ==
    [tag |-> "MaterialSelection", material_type |-> material_type,
     selected |-> selected, order |-> order, id |-> None, name |-> <<>>]
Material(id, name) ==
    [tag |-> "Material", material_type |-> "-", selected |-> None, order |-> <<>>,
     id |-> Some(id), name |-> name]

\* View::default()
DefaultView ==
    [transitioning_to |-> Some(ToLoading), view_state |-> Loading,
     esc_transition |-> None, post_load_transition |-> None]

\* set_transition_to as a queue of one: a request that is pending stays.
set_transition_to_first_wins(w, new_transitioning_to) ==
    [w EXCEPT !.view.transitioning_to =
                  IF IsSome(@) THEN @ ELSE Some(new_transitioning_to),
              !.enabled.view_system = TRUE]

\* set_transition_to that stores the request and leaves view_system as it is.
set_transition_to_not_enabling(w, new_transitioning_to) ==
    [w EXCEPT !.view.transitioning_to = Some(new_transitioning_to)]

\* View::set_transition_to, on the world of View and enabled systems.
set_transition_to(w, new_transitioning_to) ==
    [w EXCEPT !.view.transitioning_to = Some(new_transitioning_to),
              !.enabled.view_system = TRUE]

-----------------------------------------------------------------------------
(* The state after construction: every system enabled, default resources,   *)
(* no entities.                                                             *)

\* The names materials_setup may register under, as test systems know them.
\* The k-th registration (from 0) of a run is for the test "a", "b", "c", ...:
\* like materials_setup, a run registers every name once, and a test's
\* startup and update systems are known by the test's name.
NthName(k) == <<97 + k>>
SpecNames == {NthName(k) : k \in 0..(MaxTests - 1)}
LongName == [i \in 1..NameLen |-> 120]
RegistryNames == {<<97>>, <<97, 48>>, LongName}

\* Everything but the operands of the pure functions checked on their own.
InitProgram ==
    /\ pc = "turn_off_systems"
    /\ holder = [next_id |-> 0, taken_test_names |-> <<>>]
    /\ tests = <<>>
    /\ regLog = <<>>
    /\ view = DefaultView
    /\ entities = <<>>
    /\ markers = [textures |-> {}, texts |-> {}, materials |-> EmptyBag]
    /\ enabled = [handle_assets_loaded |-> TRUE,
                  handle_material_id_from_text_id_events |-> TRUE,
                  view_system |-> TRUE,
                  startup |-> SpecNames, update |-> SpecNames]
    /\ postprocesses = {}
    /\ env = [next_text_id |-> 1, textures_loaded |-> {}, texts_loaded |-> {},
              pipelines |-> {}, pipelines_loaded |-> {}, delivered |-> 0,
              arg |-> None]
    /\ last = [op |-> "init", src |-> "default", from |-> "-", main |-> "-",
               opened |-> FALSE, executed |-> FALSE, request |-> None,
               tag |-> "-"]

\* No wrap_index call and no text conversion is followed.
WrapIdle == [i |-> 0, d |-> 0, n |-> 1, result |-> None, back |-> None]
ConvIdle == [s |-> <<>>, n |-> 1, stage |-> "idle", array |-> <<>>, back |-> None]

Init ==
    /\ InitProgram
    /\ wrap = WrapIdle
    /\ conv = ConvIdle

\* turn_off_systems
turn_off_systems ==
    /\ pc = "turn_off_systems"
    /\ enabled' = [enabled EXCEPT !.handle_assets_loaded = FALSE]
    /\ pc' = "turn_off_material_test_systems"
    /\ last' = [last EXCEPT !.op = "turn_off_systems"]
    /\ UNCHANGED <<holder, tests, regLog, view, entities, markers, postprocesses,
                   env, wrap, conv>>

\* turn_off_material_test_systems(): every test's startup and update system off.
\* The list of turn_off_material_test_systems without the update systems.
TestSystemsOff_startup_only(en) == [en EXCEPT !.startup = {}]

TestSystemsOff(en) == [en EXCEPT !.startup = {}, !.update = {}]

turn_off_material_test_systems ==
    /\ pc = "turn_off_material_test_systems"
    /\ enabled' = TestSystemsOff(enabled)
    /\ pc' = "setup_textures"
    /\ last' = [last EXCEPT !.op = "turn_off_material_test_systems"]
    /\ UNCHANGED <<holder, tests, regLog, view, entities, markers, postprocesses,
                   env, wrap, conv>>

\* materials_setup, its load_texture calls: one marker per requested texture.
SetupTextures ==
    /\ pc = "setup_textures"
    /\ markers' = [markers EXCEPT !.textures = 1..MaxTextures]
    /\ pc' = "setup_register"
    /\ last' = [last EXCEPT !.op = "materials_setup"]
    /\ UNCHANGED <<holder, tests, regLog, view, entities, enabled, postprocesses,
                   env, wrap, conv>>

\* MaterialTest::new followed by Engine::spawn of the component.
SpawnMaterialTest(desired_name, slots, material_type) ==
    LET name == validate_new_name(holder.taken_test_names, desired_name)
        test == NewMaterialTest(name, desired_name, slots, material_type, holder)
    IN  /\ holder' = [next_id |-> holder.next_id + 1,
                      taken_test_names |-> Append(holder.taken_test_names, name)]
        /\ tests' = Append(tests, test)
        /\ regLog' = Append(regLog, [desired |-> desired_name, returned |-> name,
                                     material_type |-> material_type, id |-> test.id,
                                     given |-> slots])

\* register_material: one material requested from a path, one test that waits for it.
RegisterMaterial(names, types, max) ==
    /\ pc = "setup_register"
    /\ Len(tests) < max
    /\ \E name \in names, material_type \in types :
         LET pending_text == env.next_text_id
         IN  /\ SpawnMaterialTest(name, <<NewSlot(material_type, pending_text)>>,
                                  material_type)
             /\ markers' = [markers EXCEPT !.texts = @ \cup {pending_text}]
             /\ env' = [env EXCEPT !.next_text_id = @ + 1]
    /\ last' = [last EXCEPT !.op = "materials_setup"]
    /\ UNCHANGED <<pc, view, entities, enabled, postprocesses, wrap, conv>>

\* The slot lists materials_setup passes to MaterialTest::new itself: the
\* materials requested so far and a default material that is loaded already
\* (stress_test, immediate_mode_test), no material at all, and a list one
\* longer than the slot array.
SharedSlots ==
    [i \in 1..(env.next_text_id - 1) |-> NewSlot("Sprite", i)]
        \o <<NewLoadedSlot("Sprite", DefaultSpriteMaterial)>>
LongSlots ==
    [i \in 1..(SlotCap + 1) |->
        IF i <= SlotCap THEN NewLoadedSlot("Sprite", DefaultSpriteMaterial)
        ELSE NewSlot("PostProcessing", 1)]

\* MaterialTest::new called by materials_setup with a slot list of its own.
RegisterTest(names, types, slotLists, max) ==
    /\ pc = "setup_register"
    /\ Len(tests) < max
    /\ \E name \in names, material_type \in types, slots \in slotLists :
         SpawnMaterialTest(name, slots, material_type)
    /\ last' = [last EXCEPT !.op = "materials_setup"]
    /\ UNCHANGED <<pc, view, entities, markers, enabled, postprocesses, env, wrap, conv>>

-----------------------------------------------------------------------------
(* Registry only: the registration calls of materials_setup, with names of  *)
(* every shape (colliding, already suffixed, longer than the name buffer).  *)

NextRegistry ==
    \/ turn_off_systems
    \/ turn_off_material_test_systems
    \/ SetupTextures
    \/ RegisterMaterial(RegistryNames, MaterialTypes, MaxRegs)
    \/ RegisterTest(RegistryNames, MaterialTypes, {SharedSlots, <<>>, LongSlots}, MaxRegs)

SpecRegistry == Init /\ [][NextRegistry]_vars

-----------------------------------------------------------------------------
(* Claims about the registry                                                *)

\* C1: the k-th registered test (k = 0, 1, 2, ...) has id k, so ids start at
\* 0, increase strictly in registration order and are never shared.
C1_IdsAreRegistrationIndex ==
    /\ \A k \in 1..Len(tests) : tests[k].id = k - 1 /\ regLog[k].id = k - 1
    /\ holder.next_id = Len(tests)

C1_Witness == Len(tests) = 3 /\ tests[3].id = 2

Zeros(j) == [i \in 1..j |-> 48]

\* C2: every name validate_new_name returns is the desired name followed by
\* the fewest "0"s that give a name not returned before, so the returned
\* names are pairwise distinct.
C2_FewestSuffixes ==
    \A k \in 1..Len(regLog) :
        LET prior == {regLog[m].returned : m \in 1..(k - 1)}
            d == regLog[k].desired
        IN  /\ \E j \in 0..k :
                 /\ regLog[k].returned = d \o Zeros(j)
                 /\ \A i \in 0..(j - 1) : (d \o Zeros(i)) \in prior
            /\ regLog[k].returned \notin prior
            /\ holder.taken_test_names[k] = regLog[k].returned

\* "a" requested three times returns "a", "a0", "a00".
C2_Witness ==
    /\ Len(regLog) = 3
    /\ \A k \in 1..3 : regLog[k].desired = <<97>>
    /\ regLog[1].returned = <<97>>
    /\ regLog[2].returned = <<97, 48>>
    /\ regLog[3].returned = <<97, 48, 48>>

\* C3: no two registered tests report the same MaterialTest::name().
C3_DisplayNamesDistinct ==
    \A i, j \in 1..Len(tests) : i # j => TestName(tests[i]) # TestName(tests[j])

-----------------------------------------------------------------------------
(* Displayed objects.  An entity is its TextRender text, its Transform      *)
(* position (in percent of the Aspect: <<x, y>>) and its marker components. *)

Entity(text, pos, tags) ==
    [text |-> str_to_u8_array(TextLen, text), pos |-> pos, tags |-> tags]

\* UNDERLINE_OFFSET_Y_PERCENT * aspect.height, in percent of the height.
UnderlineOffset == 5
\* The vertical step between two rows of the selection grid (0.1 * aspect.height).
RowStep == 10

\* create_new_text with TextTypes::Header / Regular / Custom
HeaderTextEntity(text, pos, more) == Entity(text, pos, {"HeaderText"} \cup more)
RegularTextEntity(text, pos, more) == Entity(text, pos, {"RegularText"} \cup more)
CustomTextEntity(text, pos, more) == Entity(text, pos, {"CustomText"} \cup more)

\* An underline spawned at the position of the label itself.
UnderlineEntity_on_label(label_pos) ==
    Entity(<<>>, label_pos, {"Underline", "NonInteractiveText"})

\* create_underline(position - underline_offset) plus NonInteractiveText
UnderlineEntity(label_pos) ==
    Entity(<<>>, <<label_pos[1], label_pos[2] - UnderlineOffset>>,
           {"Underline", "NonInteractiveText"})

\* What the despawn loops at the head of change_view destroy.
TeardownTags == {"NonInteractiveText", "InteractiveText", "MaterialTestObject"}

Teardown(ents) == SelectSeq(ents, LAMBDA e : e.tags \cap TeardownTags = {})

\* A mutant: the query is not filtered by material type.
FilterByType_unfiltered(ts, material_type) == ts

\* material_test_query.iter().filter(|t| t.material_type() == material_type)
RECURSIVE FilterByType(_, _)
FilterByType(ts, material_type) ==
    IF ts = <<>> THEN <<>>
    ELSE IF ts[1].material_type = material_type
         THEN <<ts[1]>> \o FilterByType(Tail(ts), material_type)
         ELSE FilterByType(Tail(ts), material_type)

\* The position of the index-th label of the selection grid (index from 0).
GridPosition(index) ==
    LET quotient == index \div 2
        remainder == index % 2
    IN  <<IF remainder % 2 = 0 THEN 25 ELSE 75, 60 - quotient * RowStep>>

\* The entities the MaterialSelection arm spawns for the filtered tests.
RECURSIVE SelectionEntities(_, _, _)
SelectionEntities(filtered, index, specified) ==
    IF index >= Len(filtered) THEN <<>>
    ELSE LET material_test == filtered[index + 1]
             position == GridPosition(index)
             label == RegularTextEntity(Unwrap(u8_array_to_str(material_test.name)),
                                        position, {"InteractiveText"})
             should_add_underline ==
                 IF IsSome(specified) THEN Unwrap(specified) = material_test.id
                 ELSE index = 0
         IN  <<label>>
             \o (IF should_add_underline THEN <<UnderlineEntity(position)>> ELSE <<>>)
             \o SelectionEntities(filtered, index + 1, specified)

\* material_test_query.iter().find(|t| t.id() == id)
FindById(ts, id) ==
    LET hits == {i \in 1..Len(ts) : ts[i].id = id}
    IN  IF hits = {} THEN None
        ELSE Some(ts[CHOOSE i \in hits : \A j \in hits : i <= j])

\* The world change_view works on: the View, the entities, the enabled
\* systems and the post-processing effects.
World(v, ents, en, pp) ==
    [view |-> v, entities |-> ents, enabled |-> en, postprocesses |-> pp]

\* A Loading arm that stores the main view as the view state.
ArmLoading_shows_main(w) ==
    [w EXCEPT !.view.esc_transition = None,
              !.view.view_state = MainView("Sprite"),
              !.entities = Append(@, HeaderTextEntity(LoadingText, <<50, 50>>,
                                                      {"NonInteractiveText"}))]

\* The arms of the match in change_view, entered after the teardown.
ArmLoading(w) ==
    [w EXCEPT !.view.esc_transition = None,
              !.entities = Append(@, HeaderTextEntity(LoadingText, <<50, 50>>,
                                                      {"NonInteractiveText"}))]

\* A mutant: the main view keeps the category of the selection view it is
\* entered from.
ArmMainView_keeps_category(w) ==
    [w EXCEPT !.view.esc_transition = None,
              !.view.view_state =
                  MainView(IF @.tag = "MaterialSelection" THEN @.material_type
                           ELSE "Sprite"),
              !.enabled = TestSystemsOff(@),
              !.postprocesses = {},
              !.entities = @ \o
                 << HeaderTextEntity(ChooseText, <<50, 75>>, {"NonInteractiveText"}),
                    RegularTextEntity(title_from_material_type("Sprite"), <<25, 60>>,
                                      {"InteractiveText"}),
                    RegularTextEntity(title_from_material_type("PostProcessing"),
                                      <<75, 60>>, {"InteractiveText"}),
                    UnderlineEntity(<<25, 60>>) >>]

\* The MainView arm without the reset of the escape transition.
ArmMainView_keeps_escape(w) ==
    [w EXCEPT !.view.view_state = MainView("Sprite"),
              !.enabled = TestSystemsOff(@),
              !.postprocesses = {},
              !.entities = @ \o
                 << HeaderTextEntity(ChooseText, <<50, 75>>, {"NonInteractiveText"}),
                    RegularTextEntity(title_from_material_type("Sprite"), <<25, 60>>,
                                      {"InteractiveText"}),
                    RegularTextEntity(title_from_material_type("PostProcessing"),
                                      <<75, 60>>, {"InteractiveText"}),
                    UnderlineEntity(<<25, 60>>) >>]

ArmMainView(w) ==
    [w EXCEPT !.view.esc_transition = None,
              !.view.view_state = MainView("Sprite"),
              !.enabled = TestSystemsOff(@),
              !.postprocesses = {},
              !.entities = @ \o
                 << HeaderTextEntity(ChooseText, <<50, 75>>, {"NonInteractiveText"}),
                    RegularTextEntity(title_from_material_type("Sprite"), <<25, 60>>,
                                      {"InteractiveText"}),
                    RegularTextEntity(title_from_material_type("PostProcessing"),
                                      <<75, 60>>, {"InteractiveText"}),
                    UnderlineEntity(<<25, 60>>) >>]

\* The MaterialSelection arm without the clearing of the post-processing
\* effects.
ArmMaterialSelection_keeps_effects(w, ts, material_type, specified) ==
    LET filtered == FilterByType(ts, material_type)
        material_test_id_order == [i \in 1..Len(filtered) |-> filtered[i].id]
    IN  [w EXCEPT !.view.esc_transition = Some(ToMainView),
                  !.view.view_state =
                      MaterialSelection(material_type,
                          IF IsSome(specified) THEN specified
                          ELSE IF material_test_id_order = <<>> THEN None
                               ELSE Some(material_test_id_order[1]),
                          material_test_id_order),
                  !.enabled = TestSystemsOff(@),
                  !.entities = @ \o
                      <<HeaderTextEntity(title_from_material_type(material_type),
                                         <<50, 75>>, {"NonInteractiveText"})>>
                      \o SelectionEntities(filtered, 0, specified)]

\* The MaterialSelection arm that selects no id unless one is specified.
ArmMaterialSelection_selects_nothing(w, ts, material_type, specified) ==
    LET filtered == FilterByType(ts, material_type)
        material_test_id_order == [i \in 1..Len(filtered) |-> filtered[i].id]
    IN  [w EXCEPT !.view.esc_transition = Some(ToMainView),
                  !.view.view_state =
                      MaterialSelection(material_type, specified,
                                        material_test_id_order),
                  !.enabled = TestSystemsOff(@),
                  !.postprocesses = {},
                  !.entities = @ \o
                      <<HeaderTextEntity(title_from_material_type(material_type),
                                         <<50, 75>>, {"NonInteractiveText"})>>
                      \o SelectionEntities(filtered, 0, specified)]

ArmMaterialSelection(w, ts, material_type, specified) ==
    LET filtered == FilterByType(ts, material_type)
        material_test_id_order == [i \in 1..Len(filtered) |-> filtered[i].id]
    IN  [w EXCEPT !.view.esc_transition = Some(ToMainView),
                  !.view.view_state =
                      MaterialSelection(material_type,
                          IF IsSome(specified) THEN specified
                          ELSE IF material_test_id_order = <<>> THEN None
                               ELSE Some(material_test_id_order[1]),
                          material_test_id_order),
                  !.enabled = TestSystemsOff(@),
                  !.postprocesses = {},
                  !.entities = @ \o
                      <<HeaderTextEntity(title_from_material_type(material_type),
                                         <<50, 75>>, {"NonInteractiveText"})>>
                      \o SelectionEntities(filtered, 0, specified)]

\* The Material arm with an escape into the selection view of the other type.
ArmMaterial_escapes_to_other_type(w, ts, material_type, material_test_id) ==
    [w EXCEPT !.view.esc_transition =
                  Some(ToMaterialSelection(
                      IF material_type = "Sprite" THEN "PostProcessing" ELSE "Sprite",
                      Some(material_test_id))),
              !.view.view_state =
                  Material(material_test_id,
                           TestName(Unwrap(FindById(ts, material_test_id))))]

\* The Material arm whose escape transition is the test itself.
ArmMaterial_escapes_to_itself(w, ts, material_type, material_test_id) ==
    [w EXCEPT !.view.esc_transition =
                  Some(ToMaterial(material_type, material_test_id)),
              !.view.view_state =
                  Material(material_test_id,
                           TestName(Unwrap(FindById(ts, material_test_id))))]

ArmMaterial(w, ts, material_type, material_test_id) ==
    [w EXCEPT !.view.esc_transition =
                  Some(ToMaterialSelection(material_type, Some(material_test_id))),
              !.view.view_state =
                  Material(material_test_id,
                           TestName(Unwrap(FindById(ts, material_test_id))))]

\* View::clear_transitioning_to
clear_transitioning_to(w) == [w EXCEPT !.view.transitioning_to = None]

\* A mutant: the despawn loops run before the check for a pending request.
change_view_teardown_first(w, ts) ==
    LET torn == [w EXCEPT !.entities = Teardown(@)]
    IN  IF ~IsSome(w.view.transitioning_to) THEN torn
        ELSE LET transition_to == Unwrap(w.view.transitioning_to)
             IN  CASE transition_to.tag = "Loading" ->
                        clear_transitioning_to(ArmLoading(torn))
                   [] transition_to.tag = "MainView" ->
                        clear_transitioning_to(ArmMainView(torn))
                   [] transition_to.tag = "MaterialSelection" ->
                        clear_transitioning_to(ArmMaterialSelection(
                            torn, ts, transition_to.material_type, transition_to.id))
                   [] transition_to.tag = "Material" ->
                        IF ts = <<>> THEN torn
                        ELSE clear_transitioning_to(ArmMaterial(
                            torn, ts, transition_to.material_type,
                            Unwrap(transition_to.id)))

\* change_view with the guard of the Material arm ahead of the despawn loops.
change_view_guard_first(w, ts) ==
    IF ~IsSome(w.view.transitioning_to) THEN w
    ELSE LET transition_to == Unwrap(w.view.transitioning_to)
             torn == [w EXCEPT !.entities = Teardown(@)]
         IN  CASE transition_to.tag = "Loading" ->
                    clear_transitioning_to(ArmLoading(torn))
               [] transition_to.tag = "MainView" ->
                    clear_transitioning_to(ArmMainView(torn))
               [] transition_to.tag = "MaterialSelection" ->
                    clear_transitioning_to(ArmMaterialSelection(
                        torn, ts, transition_to.material_type, transition_to.id))
               [] transition_to.tag = "Material" ->
                    IF ts = <<>> THEN w
                    ELSE clear_transitioning_to(ArmMaterial(
                        torn, ts, transition_to.material_type,
                        Unwrap(transition_to.id)))

\* View::change_view
change_view(w, ts) ==
    IF ~IsSome(w.view.transitioning_to) THEN w
    ELSE LET transition_to == Unwrap(w.view.transitioning_to)
             torn == [w EXCEPT !.entities = Teardown(@)]
         IN  CASE transition_to.tag = "Loading" ->
                    clear_transitioning_to(ArmLoading(torn))
               [] transition_to.tag = "MainView" ->
                    clear_transitioning_to(ArmMainView(torn))
               [] transition_to.tag = "MaterialSelection" ->
                    clear_transitioning_to(ArmMaterialSelection(
                        torn, ts, transition_to.material_type, transition_to.id))
               [] transition_to.tag = "Material" ->
                    IF ts = <<>> THEN torn
                    ELSE clear_transitioning_to(ArmMaterial(
                        torn, ts, transition_to.material_type,
                        Unwrap(transition_to.id)))

-----------------------------------------------------------------------------
(* The frame loop: the systems in declaration order; a system that is       *)
(* disabled, or that has nothing to do in this state, is passed over.       *)

PhaseOrder == <<"events", "gate", "tests", "fps", "inputs", "view">>

HasFpsCounter(ents) == \E i \in 1..Len(ents) : "FpsCounter" \in ents[i].tags

Runs(phase, w) ==
    CASE phase = "events" -> w.enabled.handle_material_id_from_text_id_events
      [] phase = "gate" -> w.enabled.handle_assets_loaded
      [] phase = "tests" -> w.enabled.startup # {}
      [] phase = "fps" ->
            w.view.view_state.tag = "Material" /\ ~HasFpsCounter(w.entities)
      [] phase = "inputs" -> TRUE
      [] phase = "view" -> w.enabled.view_system

RECURSIVE PhaseAfter(_, _)
PhaseAfter(i, w) ==
    LET j == (i % Len(PhaseOrder)) + 1
    IN  IF Runs(PhaseOrder[j], w) THEN PhaseOrder[j] ELSE PhaseAfter(j, w)

PhaseIndex(phase) == CHOOSE i \in 1..Len(PhaseOrder) : PhaseOrder[i] = phase

\* The system that runs after `phase` in a world left as w.
After(phase, w) == PhaseAfter(PhaseIndex(phase), w)

Here == World(view, entities, enabled, postprocesses)

Become(w) ==
    /\ view' = w.view
    /\ entities' = w.entities
    /\ enabled' = w.enabled
    /\ postprocesses' = w.postprocesses

-----------------------------------------------------------------------------
(* materials_setup, after the registrations: the startup argument.          *)

\* str::to_lowercase on the model's alphabet.
to_lowercase(str) ==
    [i \in 1..Len(str) |-> IF str[i] \in 65..90 THEN str[i] + 32 ELSE str[i]]

\* The match with the category of every arm written as Sprite.
MatchTestName_sprite_arms(log, test_name) ==
    LET hits == {k \in 1..Len(log) : log[k].desired = to_lowercase(test_name)}
    IN  IF hits = {} THEN None
        ELSE LET k == CHOOSE k \in hits : \A m \in hits : k <= m
             IN  Some(ToMaterial("Sprite", log[k].id))

\* The match on the lowercased argument: one arm per registered test, keyed
\* by the name it was registered under; the first arm that matches wins.
MatchTestName(log, test_name) ==
    LET hits == {k \in 1..Len(log) : log[k].desired = to_lowercase(test_name)}
    IN  IF hits = {} THEN None
        ELSE LET k == CHOOSE k \in hits : \A m \in hits : k <= m
             IN  Some(ToMaterial(log[k].material_type, log[k].id))

Args == {None, Some(<<65>>), Some(<<122>>)}       \* no argument, "A", "z"

SetupFinish ==
    /\ pc = "setup_register"
    /\ \E arg \in Args :
         LET found == IF IsSome(arg) THEN MatchTestName(regLog, Unwrap(arg)) ELSE None
             w1 == IF IsSome(found)
                   THEN [Here EXCEPT !.view.post_load_transition = found]
                   ELSE Here
             w2 == set_transition_to(w1, ToLoading)
             w3 == [w2 EXCEPT !.enabled.handle_assets_loaded = TRUE]
         IN  /\ Become(w3)
             /\ env' = [env EXCEPT !.arg = arg]
             /\ pc' = After("view", w3)
    /\ last' = [last EXCEPT !.op = "materials_setup", !.src = "materials_setup"]
    /\ UNCHANGED <<holder, tests, regLog, markers, wrap, conv>>

-----------------------------------------------------------------------------
(* The asset managers, outside the module: by the time a system reads them  *)
(* more textures, texts and pipelines may have finished loading, a material  *)
(* may have got its pipeline, and the material manager may have sent         *)
(* MaterialIdFromTextId events.                                              *)

MaterialIds == 1..MaxMaterials

\* The events for the texts in ticketSet, in ticket order.
RECURSIVE EventsFrom(_, _, _, _)
EventsFrom(t, next_text_id, ticketSet, material_id) ==
    IF t >= next_text_id THEN <<>>
    ELSE (IF t \in ticketSet
          THEN <<[text_id |-> t, material_id |-> material_id]>> ELSE <<>>)
         \o EventsFrom(t + 1, next_text_id, ticketSet, material_id)

\* The events of one frame: none, or one event for any text that is loaded
\* (a material is made from its text), a first time or again.
AnyEvents ==
    {<<>>} \cup {<<[text_id |-> t, material_id |-> m]>> :
                   t \in env.texts_loaded, m \in MaterialIds}

\* A material manager that answers within one frame: nothing yet, or the
\* material of every loaded text, or of the first one only.
QuickEvents ==
    {<<>>, EventsFrom(1, env.next_text_id, env.texts_loaded, 1),
           EventsFrom(1, env.next_text_id, env.texts_loaded \cap {1}, 1)}

\* What the managers may have finished since the last frame: nothing, or one
\* more texture, text, pipeline creation or pipeline load.  Larger steps are
\* sequences of these over frames in which the gate stays shut.  The gate
\* asks for the pipelines of the materials it has markers for only, so only
\* their progress is followed; textures finish in the order they were requested.
NoProgress == [tex |-> {}, txt |-> {}, pip |-> {}, pld |-> {}]

AnyProgress ==
    {NoProgress}
    \cup {[NoProgress EXCEPT !.tex = {t}] :
             t \in {x \in markers.textures :
                      \A y \in markers.textures \ env.textures_loaded : x <= y}}
    \cup {[NoProgress EXCEPT !.txt = {t}] : t \in markers.texts}
    \cup {[NoProgress EXCEPT !.pip = {m}] : m \in BagToSet(markers.materials)}
    \cup {[NoProgress EXCEPT !.pld = {m}] : m \in BagToSet(markers.materials)}

\* Managers that load everything at once: nothing yet, or everything.
QuickProgress ==
    {NoProgress,
     [tex |-> markers.textures, txt |-> markers.texts, pip |-> {1}, pld |-> {1}]}

\* The managers after a step of progress: what was loaded stays loaded.
Progressed(e, step) ==
    [e EXCEPT !.textures_loaded = @ \cup step.tex, !.texts_loaded = @ \cup step.txt,
              !.pipelines = @ \cup step.pip \cup step.pld,
              !.pipelines_loaded = @ \cup step.pld]

\* TextureAssetManager / TextAssetManager / PipelineAssetManager::are_all_ids_loaded
are_all_ids_loaded(loaded, ids) == ids \subseteq loaded

\* PipelineAssetManager::get_pipeline_id_from_material_id: a material that has
\* a pipeline has the pipeline of its own number.
get_pipeline_id_from_material_id(pipelines, material_id) ==
    IF material_id \in pipelines THEN Some(material_id) ELSE None

-----------------------------------------------------------------------------
(* handle_material_id_from_text_id_events                                   *)

\* MaybeLoadedMaterial::set_material_id: what it returns.
set_material_id_result(slot, material_id) ==
    IF IsSome(slot.material_id) THEN "Err(MaterialIdAlreadySet)" ELSE "Ok(())"

\* set_material_id without the check: the last handle wins.
set_material_id_overwrites(slot, material_id) ==
    [slot EXCEPT !.material_id = Some(material_id)]

\* MaybeLoadedMaterial::set_material_id: the slot it leaves (unchanged on Err).
set_material_id(slot, material_id) ==
    IF IsSome(slot.material_id) THEN slot
    ELSE [slot EXCEPT !.material_id = Some(material_id)]

\* The slot where the loop of update_maybe_loaded_materials breaks.
IsEmptySlot(slot) == slot.text_id = MISSING_TEXT_ID /\ ~IsSome(slot.material_id)

FirstEmpty(slots) ==
    LET e == {i \in 1..Len(slots) : IsEmptySlot(slots[i])}
    IN  IF e = {} THEN Len(slots) + 1 ELSE CHOOSE i \in e : \A j \in e : i <= j

\* update_maybe_loaded_materials without the comparison of text ids.
update_maybe_loaded_materials_any_ticket(t, text_id, material_id) ==
    LET stop == FirstEmpty(t.maybe_loaded_materials)
    IN  [t EXCEPT !.maybe_loaded_materials =
            [i \in 1..Len(@) |->
                IF i < stop THEN set_material_id(@[i], material_id) ELSE @[i]]]

\* MaterialTest::update_maybe_loaded_materials
update_maybe_loaded_materials(t, text_id, material_id) ==
    LET stop == FirstEmpty(t.maybe_loaded_materials)
    IN  [t EXCEPT !.maybe_loaded_materials =
            [i \in 1..Len(@) |->
                IF i < stop /\ @[i].text_id = text_id
                THEN set_material_id(@[i], material_id)
                ELSE @[i]]]

\* One event: every test is updated and one MaterialAsset is spawned per test.
RECURSIVE ApplyEvents(_, _, _)
ApplyEvents(evs, ts, mats) ==
    IF evs = <<>> THEN [tests |-> ts, materials |-> mats]
    ELSE LET ev == evs[1]
         IN  ApplyEvents(Tail(evs),
                 [i \in 1..Len(ts) |->
                     update_maybe_loaded_materials(ts[i], ev.text_id, ev.material_id)],
                 IF ts = <<>> THEN mats
                 ELSE mats (+) [m \in {ev.material_id} |-> Len(ts)])

handle_material_id_from_text_id_events(eventLists, maxEvents) ==
    /\ pc = "events"
    /\ \E evs \in eventLists :
         /\ env.delivered + Len(evs) <= maxEvents
         /\ LET r == ApplyEvents(evs, tests, markers.materials)
            IN  /\ tests' = r.tests
                /\ markers' = [markers EXCEPT !.materials = r.materials]
         /\ env' = [env EXCEPT !.delivered = @ + Len(evs)]
    /\ pc' = After("events", Here)
    /\ last' = [last EXCEPT !.op = "handle_material_id_from_text_id_events"]
    /\ UNCHANGED <<holder, regLog, view, entities, enabled, postprocesses, wrap, conv>>

-----------------------------------------------------------------------------
(* handle_assets_loaded                                                     *)

\* The pipeline ids folded from the MaterialAsset markers.
PipelineIds(mk, e) ==
    {Unwrap(get_pipeline_id_from_material_id(e.pipelines, m)) :
        m \in {x \in BagToSet(mk.materials) :
                 IsSome(get_pipeline_id_from_material_id(e.pipelines, x))}}

\* A mutant: the check that some pipeline is tracked is left out.
AllAssetsLoaded_no_pipeline_check(mk, e) ==
    /\ are_all_ids_loaded(e.textures_loaded, mk.textures)
    /\ are_all_ids_loaded(e.texts_loaded, mk.texts)
    /\ are_all_ids_loaded(e.pipelines_loaded, PipelineIds(mk, e))

\* The condition of the if in handle_assets_loaded.
AllAssetsLoaded(mk, e) ==
    /\ are_all_ids_loaded(e.textures_loaded, mk.textures)
    /\ are_all_ids_loaded(e.texts_loaded, mk.texts)
    /\ PipelineIds(mk, e) # {}
    /\ are_all_ids_loaded(e.pipelines_loaded, PipelineIds(mk, e))

\* A mutant: post_load_transition is ignored.
PostLoadRequest_always_main(v) == ToMainView

\* A gate that asks for the loading screen again.
PostLoadRequest_to_loading(v) == ToLoading

\* The request the gate issues.
PostLoadRequest(v) ==
    IF IsSome(v.post_load_transition) THEN Unwrap(v.post_load_transition)
    ELSE ToMainView

\* The gate that leaves the two loading systems enabled when it opens.
handle_assets_loaded_stays_enabled(steps) ==
    /\ pc = "gate"
    /\ \E step \in steps :
         LET managers == Progressed(env, step)
         IN  /\ env' = managers
             /\ IF AllAssetsLoaded(markers, managers)
                THEN LET w1 == set_transition_to(Here, PostLoadRequest(view))
                         w2 == [w1 EXCEPT !.view.post_load_transition = None]
                     IN  /\ Become(w2)
                         /\ markers' = [textures |-> {}, texts |-> {},
                                        materials |-> EmptyBag]
                         /\ pc' = After("gate", w2)
                         /\ last' = [last EXCEPT !.op = "handle_assets_loaded",
                                                 !.opened = TRUE,
                                                 !.src = "handle_assets_loaded"]
                ELSE /\ pc' = After("gate", Here)
                     /\ last' = [last EXCEPT !.op = "handle_assets_loaded"]
                     /\ UNCHANGED <<view, entities, enabled, postprocesses, markers>>
    /\ UNCHANGED <<holder, tests, regLog, wrap, conv>>

handle_assets_loaded(steps) ==
    /\ pc = "gate"
    /\ \E step \in steps :
         LET managers == Progressed(env, step)
         IN  /\ env' = managers
             /\ IF AllAssetsLoaded(markers, managers)
                THEN LET w1 == set_transition_to(Here, PostLoadRequest(view))
                         w2 == [w1 EXCEPT
                                  !.view.post_load_transition = None,
                                  !.enabled.handle_assets_loaded = FALSE,
                                  !.enabled.handle_material_id_from_text_id_events = FALSE]
                     IN  /\ Become(w2)
                         /\ markers' = [textures |-> {}, texts |-> {},
                                        materials |-> EmptyBag]
                         /\ pc' = After("gate", w2)
                         /\ last' = [last EXCEPT !.op = "handle_assets_loaded",
                                                 !.opened = TRUE,
                                                 !.src = "handle_assets_loaded"]
                ELSE /\ pc' = After("gate", Here)
                     /\ last' = [last EXCEPT !.op = "handle_assets_loaded"]
                     /\ UNCHANGED <<view, entities, enabled, postprocesses, markers>>
    /\ UNCHANGED <<holder, tests, regLog, wrap, conv>>

-----------------------------------------------------------------------------
(* The tests' startup systems (system_once) and fps_system                  *)

\* material_test_query.iter().find(|t| t.name() == name)
FindByName(ts, name) ==
    LET hits == {i \in 1..Len(ts) : TestName(ts[i]) = name}
    IN  IF hits = {} THEN None
        ELSE Some(ts[CHOOSE i \in hits : \A j \in hits : i <= j])

\* One <test>_startup_system: it looks its test up by name, needs the material
\* of the first slot, registers it as a post-processing effect when the test
\* is a post-processing one, spawns the test's objects and enables the test's
\* update system.
RunStartup(w, ts, system) ==
    LET found == FindByName(ts, system)
    IN  IF ~IsSome(found) THEN w
        ELSE LET material_test == Unwrap(found)
                 material_id ==
                     SlotAt(material_test.maybe_loaded_materials, 1).material_id
             IN  IF ~IsSome(material_id) THEN w
                 ELSE [w EXCEPT
                         !.postprocesses =
                             IF material_test.material_type = "PostProcessing"
                             THEN @ \cup {Unwrap(material_id)} ELSE @,
                         !.entities = @ \o
                             << Entity(<<>>, <<50, 50>>,
                                       {"TextureRender", "MaterialTestObject"}),
                                RegularTextEntity(system, <<50, 70>>,
                                                  {"MaterialTestObject"}) >>,
                         !.enabled.update = @ \cup {system}]

RECURSIVE RunStartups(_, _, _)
RunStartups(w, ts, systems) ==
    IF systems = {} THEN w
    ELSE LET system == CHOOSE x \in systems : TRUE
         IN  RunStartups(RunStartup(w, ts, system), ts, systems \ {system})

test_startup_systems ==
    /\ pc = "tests"
    /\ LET w1 == RunStartups(Here, tests, enabled.startup)
           w2 == [w1 EXCEPT !.enabled.startup = {}]
       IN  /\ Become(w2)
           /\ pc' = After("tests", w2)
    /\ last' = [last EXCEPT !.op = "test_startup_systems"]
    /\ UNCHANGED <<holder, tests, regLog, markers, env, wrap, conv>>

\* An FPS counter that is no MaterialTestObject.
FpsCounterEntity_untagged == CustomTextEntity(FpsText, <<5, 97>>, {"FpsCounter"})

\* The counter fps_system spawns (at 5% / 97.5% of the Aspect, written in
\* whole percent).
FpsCounterEntity ==
    CustomTextEntity(FpsText, <<5, 97>>, {"MaterialTestObject", "FpsCounter"})

\* fps_system: in a Material view, the counter is spawned if there is none.
fps_system ==
    /\ pc = "fps"
    /\ LET w1 == IF view.view_state.tag = "Material" /\ ~HasFpsCounter(entities)
                 THEN [Here EXCEPT !.entities = Append(@, FpsCounterEntity)]
                 ELSE Here
       IN  /\ Become(w1)
           /\ pc' = After("fps", w1)
    /\ last' = [last EXCEPT !.op = "fps_system"]
    /\ UNCHANGED <<holder, tests, regLog, markers, env, wrap, conv>>

-----------------------------------------------------------------------------
(* wrap_index and handle_inputs                                             *)

\* Rust's % on isize: the remainder has the sign of the dividend.
Rem(a, b) == IF a >= 0 THEN a % b ELSE -((-a) % b)

\* A mutant: the remainder is taken once, without adding len.
wrap_index_plain_rem(index, array_len) == Rem(index, array_len)

\* An index that stops at the ends of the list.
wrap_index_clamped(index, array_len) ==
    IF index < 0 THEN 0 ELSE IF index >= array_len THEN array_len - 1 ELSE index

\* wrap_index
wrap_index(index, array_len) ==
    LET len == array_len
    IN  Rem(Rem(index, len) + len, len)

Keys == {"select", "back", "left", "right", "up", "down"}

\* A move that spawns a second underline under the label and leaves the
\* first where it was.
MoveUnderline_spawning(ents, text) ==
    LET labels == {i \in 1..Len(ents) :
                      /\ "RegularText" \in ents[i].tags
                      /\ Unwrap(u8_array_to_str(ents[i].text)) = text}
    IN  IF labels = {} THEN ents
        ELSE LET l == CHOOSE i \in labels : \A j \in labels : i <= j
             IN  Append(ents, UnderlineEntity(ents[l].pos))

\* The first RegularText entity showing `text`, if any, gets the first
\* Underline entity moved under it.
MoveUnderline(ents, text) ==
    LET labels == {i \in 1..Len(ents) :
                      /\ "RegularText" \in ents[i].tags
                      /\ Unwrap(u8_array_to_str(ents[i].text)) = text}
        underlines == {i \in 1..Len(ents) : "Underline" \in ents[i].tags}
    IN  IF labels = {} \/ underlines = {} THEN ents
        ELSE LET l == CHOOSE i \in labels : \A j \in labels : i <= j
                 u == CHOOSE i \in underlines : \A j \in underlines : i <= j
             IN  [ents EXCEPT ![u].pos =
                     <<ents[l].pos[1], ents[l].pos[2] - UnderlineOffset>>]

\* Vec::iter().position(|id| id == wanted), from 0.
PositionOf(order, wanted) ==
    LET hits == {i \in 1..Len(order) : order[i] = wanted}
    IN  IF hits = {} THEN None
        ELSE Some((CHOOSE i \in hits : \A j \in hits : i <= j) - 1)

\* The MainView arm without the return on left and right pressed together.
InputsMainView_both_toggle(w, keys) ==
    LET material_types == w.view.view_state.material_type
    IN  IF "select" \in keys
        THEN set_transition_to(w, ToMaterialSelection(material_types, None))
        ELSE IF "left" \in keys \/ "right" \in keys
        THEN LET new_material_type ==
                     IF material_types = "Sprite" THEN "PostProcessing" ELSE "Sprite"
             IN  [w EXCEPT !.view.view_state = MainView(new_material_type),
                           !.entities = MoveUnderline(
                               @, title_from_material_type(new_material_type))]
        ELSE w

\* The ViewState::MainView arm.
InputsMainView(w, keys) ==
    LET material_types == w.view.view_state.material_type
    IN  IF "select" \in keys
        THEN set_transition_to(w, ToMaterialSelection(material_types, None))
        ELSE IF "left" \in keys /\ "right" \in keys THEN w
        ELSE IF "left" \in keys \/ "right" \in keys
        THEN LET new_material_type ==
                     IF material_types = "Sprite" THEN "PostProcessing" ELSE "Sprite"
             IN  [w EXCEPT !.view.view_state = MainView(new_material_type),
                           !.entities = MoveUnderline(
                               @, title_from_material_type(new_material_type))]
        ELSE w

\* An escape branch that always asks for the main view.
InputsBack_to_main(w) ==
    IF ~IsSome(w.view.esc_transition) THEN w
    ELSE set_transition_to(w, ToMainView)

\* The escape branch of the MaterialSelection and Material arms.
InputsBack(w) ==
    IF ~IsSome(w.view.esc_transition) THEN w
    ELSE set_transition_to(w, Unwrap(w.view.esc_transition))

\* index_shift: a key pressed together with its opposite does not count; the
\* horizontal keys move by one and the vertical keys by two.
index_shift_rows_of_one(keys) ==
    LET left_pressed == "left" \in keys /\ ~("right" \in keys)
        right_pressed == "right" \in keys /\ ~("left" \in keys)
        up_pressed == "up" \in keys /\ ~("down" \in keys)
        down_pressed == "down" \in keys /\ ~("up" \in keys)
    IN  (IF left_pressed THEN -1 ELSE IF right_pressed THEN 1 ELSE 0)
        + (IF up_pressed THEN -1 ELSE IF down_pressed THEN 1 ELSE 0)

index_shift(keys) ==
    LET left_pressed == "left" \in keys /\ ~("right" \in keys)
        right_pressed == "right" \in keys /\ ~("left" \in keys)
        up_pressed == "up" \in keys /\ ~("down" \in keys)
        down_pressed == "down" \in keys /\ ~("up" \in keys)
    IN  (IF left_pressed THEN -1 ELSE IF right_pressed THEN 1 ELSE 0)
        + (IF up_pressed THEN -2 ELSE IF down_pressed THEN 2 ELSE 0)

\* The MaterialSelection arm with select tested ahead of back.
InputsMaterialSelection_select_first(w, ts, keys) ==
    LET vs == w.view.view_state
        material_id_order == vs.order
        left_pressed == "left" \in keys /\ ~("right" \in keys)
        right_pressed == "right" \in keys /\ ~("left" \in keys)
        up_pressed == "up" \in keys /\ ~("down" \in keys)
        down_pressed == "down" \in keys /\ ~("up" \in keys)
    IN  IF "select" \in keys /\ material_id_order # <<>>
        THEN LET material_test_id == Unwrap(vs.selected)
                 material_test == Unwrap(FindById(ts, material_test_id))
                 w1 == set_transition_to(
                           w, ToMaterial(vs.material_type, material_test_id))
             IN  [w1 EXCEPT !.enabled.startup =
                                @ \cup {material_test.startup_system_name}]
        ELSE IF "back" \in keys THEN InputsBack(w)
        ELSE IF material_id_order # <<>>
                /\ (left_pressed \/ right_pressed \/ up_pressed \/ down_pressed)
        THEN LET current_index ==
                     Unwrap(PositionOf(material_id_order, Unwrap(vs.selected)))
                 new_index == wrap_index(current_index + index_shift(keys),
                                         Len(material_id_order))
                 selected_material_test_id == material_id_order[new_index + 1]
                 selected_material_test ==
                     Unwrap(FindById(ts, selected_material_test_id))
             IN  [w EXCEPT !.view.view_state =
                               MaterialSelection(vs.material_type,
                                                 Some(selected_material_test_id),
                                                 material_id_order),
                           !.entities =
                               MoveUnderline(@, TestName(selected_material_test))]
        ELSE w

\* The ViewState::MaterialSelection arm.
InputsMaterialSelection(w, ts, keys) ==
    LET vs == w.view.view_state
        material_id_order == vs.order
        left_pressed == "left" \in keys /\ ~("right" \in keys)
        right_pressed == "right" \in keys /\ ~("left" \in keys)
        up_pressed == "up" \in keys /\ ~("down" \in keys)
        down_pressed == "down" \in keys /\ ~("up" \in keys)
    IN  IF "back" \in keys THEN InputsBack(w)
        ELSE IF "select" \in keys /\ material_id_order # <<>>
        THEN LET material_test_id == Unwrap(vs.selected)
                 material_test == Unwrap(FindById(ts, material_test_id))
                 w1 == set_transition_to(
                           w, ToMaterial(vs.material_type, material_test_id))
             IN  [w1 EXCEPT !.enabled.startup =
                                @ \cup {material_test.startup_system_name}]
        ELSE IF material_id_order # <<>>
                /\ (left_pressed \/ right_pressed \/ up_pressed \/ down_pressed)
        THEN LET current_index ==
                     Unwrap(PositionOf(material_id_order, Unwrap(vs.selected)))
                 new_index == wrap_index(current_index + index_shift(keys),
                                         Len(material_id_order))
                 selected_material_test_id == material_id_order[new_index + 1]
                 selected_material_test ==
                     Unwrap(FindById(ts, selected_material_test_id))
             IN  [w EXCEPT !.view.view_state =
                               MaterialSelection(vs.material_type,
                                                 Some(selected_material_test_id),
                                                 material_id_order),
                           !.entities =
                               MoveUnderline(@, TestName(selected_material_test))]
        ELSE w

\* handle_inputs with a Loading arm that lets select skip the loading screen.
InputsResult_loading_selects(w, ts, keys) ==
    LET tag == w.view.view_state.tag
    IN  CASE tag = "Loading" -> IF "select" \in keys
                                THEN set_transition_to(w, ToMainView) ELSE w
          [] tag = "MainView" -> InputsMainView(w, keys)
          [] tag = "MaterialSelection" -> InputsMaterialSelection(w, ts, keys)
          [] tag = "Material" -> IF "back" \in keys THEN InputsBack(w) ELSE w

\* handle_inputs: the world it leaves for the keys just pressed.
InputsResult(w, ts, keys) ==
    LET tag == w.view.view_state.tag
    IN  CASE tag = "Loading" -> w
          [] tag = "MainView" -> InputsMainView(w, keys)
          [] tag = "MaterialSelection" -> InputsMaterialSelection(w, ts, keys)
          [] tag = "Material" -> IF "back" \in keys THEN InputsBack(w) ELSE w

\* Who asked for a transition, for the record kept in `last`.
Requester(vs, request) ==
    CASE vs.tag = "MainView" -> "main_select"
      [] vs.tag = "MaterialSelection" /\ request.tag = "Material" -> "selection_select"
      [] vs.tag = "MaterialSelection" -> "selection_back"
      [] OTHER -> "material_back"

\* The key sets of one frame: any keys, or at most `max` of them at once.
KeySets(max) == {ks \in SUBSET Keys : Cardinality(ks) <= max}

handle_inputs(keySets) ==
    /\ pc = "inputs"
    /\ \E keys \in keySets :
         LET w1 == InputsResult(Here, tests, keys)
         IN  /\ Become(w1)
             /\ pc' = After("inputs", w1)
             /\ last' = IF w1.view.transitioning_to # view.transitioning_to
                        THEN [last EXCEPT
                                !.op = "handle_inputs",
                                !.src = Requester(view.view_state,
                                                  Unwrap(w1.view.transitioning_to)),
                                !.from = last.src,
                                !.main = IF view.view_state.tag = "MainView"
                                         THEN view.view_state.material_type ELSE @]
                        ELSE [last EXCEPT !.op = "handle_inputs"]
    /\ UNCHANGED <<holder, tests, regLog, markers, env, wrap, conv>>

-----------------------------------------------------------------------------
(* view_system (system_once): change_view, then the system is off again     *)

view_system ==
    /\ pc = "view"
    /\ LET w1 == change_view(Here, tests)
           w2 == [w1 EXCEPT !.enabled.view_system = FALSE]
       IN  /\ Become(w2)
           /\ pc' = After("view", w2)
           /\ last' = [last EXCEPT !.op = "view_system",
                                   !.executed = IsSome(view.transitioning_to)
                                                /\ ~IsSome(w1.view.transitioning_to),
                                   !.tag = IF IsSome(view.transitioning_to)
                                              /\ ~IsSome(w1.view.transitioning_to)
                                           THEN Unwrap(view.transitioning_to).tag
                                           ELSE @]
    /\ UNCHANGED <<holder, tests, regLog, markers, env, wrap, conv>>

-----------------------------------------------------------------------------
(* The program: setup, then frames                                          *)

\* Navigation: every key combination of up to MaxKeys keys, over asset
\* managers that answer within one frame.
Next ==
    \/ turn_off_systems
    \/ turn_off_material_test_systems
    \/ SetupTextures
    \/ RegisterMaterial({NthName(Len(tests))}, MaterialTypes, MaxTests)
    \/ SetupFinish
    \/ handle_material_id_from_text_id_events(QuickEvents, MaxTests)
    \/ handle_assets_loaded(QuickProgress)
    \/ test_startup_systems
    \/ fps_system
    \/ handle_inputs(KeySets(MaxKeys))
    \/ view_system

Spec == Init /\ [][Next]_vars

\* The load gate: every interleaving of the asset managers' progress, with a
\* user who presses nothing.  As in materials_setup, the tests that share the
\* materials requested so far are Sprite tests; the others here are
\* PostProcessing ones.
NextGate ==
    \/ turn_off_systems
    \/ turn_off_material_test_systems
    \/ SetupTextures
    \/ RegisterMaterial({NthName(Len(tests))}, {"PostProcessing"}, MaxGateTests)
    \/ RegisterTest({NthName(Len(tests))}, {"Sprite"}, {SharedSlots}, MaxGateTests)
    \/ SetupFinish
    \/ handle_material_id_from_text_id_events(AnyEvents, MaxEvents)
    \/ handle_assets_loaded(AnyProgress)
    \/ fps_system
    \/ handle_inputs({{}})
    \/ view_system

SpecGate == Init /\ [][NextGate]_vars

\* wrap_index alone: a start index i in a list of n >= 1 items is shifted by
\* d, and the result is shifted back by -d.
InitWrap ==
    /\ InitProgram
    /\ wrap \in [i : 0..(MaxLen - 1), d : (-MaxShift)..MaxShift, n : 1..MaxLen,
                 result : {None}, back : {None}]
    /\ wrap.i < wrap.n
    /\ conv = ConvIdle

WrapShift ==
    /\ ~IsSome(wrap.result)
    /\ wrap' = [wrap EXCEPT !.result = Some(wrap_index(wrap.i + wrap.d, wrap.n))]
    /\ UNCHANGED <<pc, holder, tests, regLog, view, entities, markers, enabled,
                   postprocesses, env, last, conv>>

WrapBack ==
    /\ IsSome(wrap.result)
    /\ ~IsSome(wrap.back)
    /\ wrap' = [wrap EXCEPT
                  !.back = Some(wrap_index(Unwrap(wrap.result) - wrap.d, wrap.n))]
    /\ UNCHANGED <<pc, holder, tests, regLog, view, entities, markers, enabled,
                   postprocesses, env, last, conv>>

NextWrap == WrapShift \/ WrapBack

SpecWrap == InitWrap /\ [][NextWrap]_vars

-----------------------------------------------------------------------------
(* Claims about the load gate (SpecGate)                                    *)

\* A slot that holds a ticket (text id) and no material id yet.
PendingWithTicket(slot) ==
    slot.text_id # MISSING_TEXT_ID /\ ~IsSome(slot.material_id)

\* C4: the gate never opens while some slot of some registered test still
\* holds a ticket without a material id.  (Once the gate has opened the slots
\* no longer change, so the slots seen later are the slots at the opening.)
C4_GateNeverOpensPending ==
    last.opened =>
        \A k \in 1..Len(tests) : \A i \in 1..SlotCap :
            ~PendingWithTicket(SlotAt(tests[k].maybe_loaded_materials, i))

\* The step in which handle_assets_loaded opens the gate.
GateOpens == ~last.opened /\ last'.opened

\* C5: the gate opens only when every tracked texture and text is loaded,
\* every pipeline of a tracked material is loaded, and at least one
\* MaterialIdFromTextId event has been applied; with none applied it stays shut.
C5_GateOpensOnlyWhenAllLoaded ==
    [][GateOpens =>
          /\ markers.textures \subseteq env'.textures_loaded
          /\ markers.texts \subseteq env'.texts_loaded
          /\ \A m \in BagToSet(markers.materials) :
                m \in env'.pipelines => m \in env'.pipelines_loaded
          /\ env.delivered >= 1
          /\ BagToSet(markers.materials) # {}]_vars

\* The gate has just opened with two tests registered, after one event.
C5_Witness ==
    /\ last.op = "handle_assets_loaded" /\ last.opened
    /\ Len(tests) = 2 /\ env.delivered = 1
    /\ env.textures_loaded = 1..MaxTextures
    /\ env.texts_loaded # {}

\* The test the startup argument names: the first one registered under the
\* lowercased argument.
NamedByArg ==
    IF ~IsSome(env.arg) THEN {}
    ELSE {k \in 1..Len(regLog) :
            /\ regLog[k].desired = to_lowercase(Unwrap(env.arg))
            /\ \A m \in 1..(k - 1) : regLog[m].desired # regLog[k].desired}

\* C6: the opening gate requests post_load_transition if it is set, else
\* MainView; post_load_transition is None from then on; the first view after
\* Loading is Material(T) when the startup argument names test T, else MainView.
C6_PostLoadTransitionOneShot ==
    /\ [][GateOpens =>
            view'.transitioning_to =
                IF IsSome(view.post_load_transition) THEN view.post_load_transition
                ELSE Some(ToMainView)]_vars
    /\ [](last.opened => view.post_load_transition = None)
    /\ [][view.view_state.tag = "Loading" /\ view'.view_state.tag # "Loading" =>
            /\ \A k \in NamedByArg :
                  view'.view_state = Material(tests[k].id, TestName(tests[k]))
            /\ NamedByArg = {} => view'.view_state.tag = "MainView"]_vars

\* Started with the argument "A" and two tests registered, "a" and "b", the
\* gate has opened and test "a", test 0, is shown.
C6_Witness ==
    /\ last.opened /\ last.op = "view_system"
    /\ env.arg = Some(<<65>>)
    /\ Len(tests) = 2
    /\ view.view_state = Material(0, <<97>>)
    /\ view.post_load_transition = None

-----------------------------------------------------------------------------
(* Claim about wrap_index (SpecWrap)                                        *)

\* C7: for a list of n >= 1 items, an index i in 0..n-1 and any shift d,
\* wrap_index(i + d, n) is in 0..n-1 and is (i + d) mod n, and shifting the
\* result by -d gives i again.
C7_WrapIndexLaw ==
    /\ IsSome(wrap.result) =>
          /\ Unwrap(wrap.result) \in 0..(wrap.n - 1)
          /\ \E q \in (-(MaxShift + MaxLen))..(MaxShift + MaxLen) :
                wrap.i + wrap.d = q * wrap.n + Unwrap(wrap.result)
    /\ IsSome(wrap.back) => Unwrap(wrap.back) = wrap.i

\* 0 shifted by -7 in a list of 3 wraps to 2, and back by +7 to 0.
C7_Witness ==
    /\ wrap.i = 0 /\ wrap.d = -7 /\ wrap.n = 3
    /\ wrap.result = Some(2) /\ wrap.back = Some(0)

-----------------------------------------------------------------------------
(* Claims about the view state machine and the input router (Spec)          *)

\* C8: a second change_view with no request in between changes nothing,
\* whichever request the first one served, and change_view with nothing
\* pending returns the world as it found it, nothing torn down.
C8_ChangeViewIdempotent ==
    /\ last.op = "view_system" => change_view(Here, tests) = Here
    /\ pc = "view" =>
          LET once == change_view(Here, tests)
          IN  change_view(once, tests) = once
    /\ ~IsSome(view.transitioning_to) => change_view(Here, tests) = Here

\* A MaterialSelection request has just been served: its header and labels
\* are on screen, which a teardown would remove.
C8_Witness ==
    /\ last.op = "view_system" /\ last.executed
    /\ view.view_state.tag = "MaterialSelection"
    /\ Len(entities) >= 3
    /\ ~IsSome(view.transitioning_to)

\* C9: select in MainView(X), once executed, gives MaterialSelection(X, s, ids)
\* with ids the ids of the tests of type X in registration order and s the
\* first of them, None only if there is none.
C9_SelectOpensSelection ==
    last.op = "view_system" /\ last.executed /\ last.src = "main_select" =>
        LET X == last.main
            ofX == {k \in 1..Len(tests) : tests[k].material_type = X}
            vs == view.view_state
        IN  /\ vs.tag = "MaterialSelection"
            /\ vs.material_type = X
            /\ Len(vs.order) = Cardinality(ofX)
            /\ \A k \in ofX :
                  vs.order[Cardinality({m \in ofX : m <= k})] = tests[k].id
            /\ vs.selected = IF ofX = {} THEN None ELSE Some(vs.order[1])

\* PostProcessing selected in a registry that mixes both types.
C9_Witness ==
    /\ last.op = "view_system" /\ last.executed /\ last.src = "main_select"
    /\ last.main = "PostProcessing"
    /\ Len(view.view_state.order) = 2
    /\ Len(tests) = 4
    /\ tests[1].material_type = "Sprite"

\* Back has been pressed in a selection view entered by select from the main
\* view, and the request has been executed.
BackFromSelection ==
    /\ last.op = "view_system" /\ last.executed
    /\ last.src = "selection_back" /\ last.from = "main_select"

\* C10 as stated: back gives MainView(X), X the category highlighted before.
C10_BackRestoresCategory ==
    BackFromSelection => view.view_state = MainView(last.main)

\* C10, amended: back gives MainView(Sprite) whichever X was highlighted
\* before, which is MainView(X) for X = Sprite only.
C10_BackGivesFirstCategory ==
    BackFromSelection =>
        /\ view.view_state = MainView("Sprite")
        /\ view.view_state = MainView(last.main) <=> last.main = "Sprite"

C10_Witness == BackFromSelection /\ last.main = "PostProcessing"

-----------------------------------------------------------------------------
(* Moving the selection                                                     *)

\* The direction the claim gives to a pair of opposite keys.
Direction(keys, minus, plus, step) ==
    IF minus \in keys /\ plus \in keys THEN 0
    ELSE IF minus \in keys THEN -step
    ELSE IF plus \in keys THEN step
    ELSE 0

\* C11: in a selection view whose list of ids is not empty and whose
\* selected id is at index i, a tick with neither back nor select selects the
\* id at index (i + dx + dy) mod len, with dx -1 for left, +1 for right and 0
\* for neither or both, and dy -2 for up, +2 for down and 0 for neither or
\* both; the list itself and the category stay.
C11_SelectionMovesByShift ==
    LET vs == view.view_state
    IN  (vs.tag = "MaterialSelection" /\ vs.order # <<>>) =>
            \A keys \in SUBSET (Keys \ {"back", "select"}) :
                LET i == Unwrap(PositionOf(vs.order, Unwrap(vs.selected)))
                    dx == Direction(keys, "left", "right", 1)
                    dy == Direction(keys, "up", "down", 2)
                    after == InputsResult(Here, tests, keys).view
                IN  /\ after.view_state =
                           MaterialSelection(
                               vs.material_type,
                               Some(vs.order[((i + dx + dy) % Len(vs.order)) + 1]),
                               vs.order)
                    /\ after.transitioning_to = view.transitioning_to

\* handle_inputs has moved the selection of a list of at least three ids to
\* the third id, two places from the first as the down key does.
C11_Witness ==
    /\ last.op = "handle_inputs"
    /\ view.view_state.tag = "MaterialSelection"
    /\ Len(view.view_state.order) >= 3
    /\ view.view_state.selected = Some(view.view_state.order[3])

-----------------------------------------------------------------------------
(* Input while loading                                                      *)

\* C12: while the view state is Loading, a run of handle_inputs changes
\* nothing, whatever keys are pressed: not the view state, the pending
\* request, the escape transition or the post-load transition, not the
\* enabled systems, the entities or the post-processes.
C12_LoadingIgnoresInput ==
    [][(pc = "inputs" /\ view.view_state.tag = "Loading") =>
          /\ \A keys \in SUBSET Keys : InputsResult(Here, tests, keys) = Here
          /\ view' = view
          /\ enabled' = enabled
          /\ entities' = entities
          /\ postprocesses' = postprocesses
          /\ tests' = tests]_vars

\* handle_inputs has just run on the loading screen.
C12_Witness ==
    /\ last.op = "handle_inputs"
    /\ view.view_state.tag = "Loading"

-----------------------------------------------------------------------------
(* Load slots                                                               *)

\* C13: a load slot is resolved at most once and keeps its first handle:
\* set_material_id on a slot that holds a material id returns
\* MaterialIdAlreadySet and leaves the slot as it is, and no step of the
\* program, a notification delivered again included, changes a slot that
\* holds a material id.
C13_SlotResolvesOnce ==
    [][\A k \in 1..Len(tests) :
       \A i \in SlotIndexes(tests[k].maybe_loaded_materials) :
          LET slot == SlotAt(tests[k].maybe_loaded_materials, i)
          IN  IsSome(slot.material_id) =>
                  /\ \A m \in MaterialIds :
                        /\ set_material_id(slot, m) = slot
                        /\ set_material_id_result(slot, m) = "Err(MaterialIdAlreadySet)"
                  /\ k <= Len(tests')
                  /\ SlotAt(tests'[k].maybe_loaded_materials, i) = slot]_vars

\* The only ticket of the run has been delivered twice, with material 2 and
\* then with material 1, and the slot holds material 2.
C13_Witness ==
    /\ Len(tests) = 1
    /\ markers.texts = {1}
    /\ env.delivered = 2
    /\ BagToSet(markers.materials) = {1, 2}
    /\ tests[1].maybe_loaded_materials = <<[NewSlot("PostProcessing", 1) EXCEPT
                                              !.material_id = Some(2)]>>

-----------------------------------------------------------------------------
(* One pending request                                                      *)

\* The requests the program can make of the registry it has.
Requests ==
    {ToLoading, ToMainView}
    \cup {ToMaterialSelection(c, None) : c \in MaterialTypes}
    \cup {ToMaterialSelection(c, Some(tests[k].id)) :
             c \in MaterialTypes, k \in 1..Len(tests)}
    \cup {ToMaterial(c, tests[k].id) : c \in MaterialTypes, k \in 1..Len(tests)}

\* The world that change_view leaves is the one `request` asks for, and no
\* request is pending.  The Loading arm builds the loading screen and leaves
\* the view state; the other arms set the view state of their name.
BuiltFor(request, w) ==
    /\ w.view.transitioning_to = None
    /\ request.tag = "Loading" =>
           /\ w.view.esc_transition = None
           /\ \E i \in 1..Len(w.entities) : w.entities[i].text = LoadingText
    /\ request.tag # "Loading" => w.view.view_state.tag = request.tag
    /\ request.tag = "MaterialSelection" =>
           w.view.view_state.material_type = request.material_type
    /\ request.tag = "Material" => w.view.view_state.id = request.id

-----------------------------------------------------------------------------
(* The unwraps of handle_inputs and change_view                             *)

\* The lengths handle_inputs passes to wrap_index for the keys pressed.
WrapIndexLengths(w, keys) ==
    LET vs == w.view.view_state
    IN  IF /\ vs.tag = "MaterialSelection"
           /\ ~("back" \in keys)
           /\ ~("select" \in keys /\ vs.order # <<>>)
           /\ vs.order # <<>>
           /\ keys \cap {"left", "right", "up", "down"} # {}
        THEN {Len(vs.order)} ELSE {}

\* C15: no unwrap of handle_inputs or change_view fails.  In a selection view
\* with ids the selected id is present, it is one of the ids listed, and
\* every id listed is the id of a registered test; a pending request for a
\* test names a registered test; every label's text reads back as a string;
\* and wrap_index is never given the length 0.
C15_UnwrapsSucceed ==
    LET vs == view.view_state
    IN  /\ (vs.tag = "MaterialSelection" /\ vs.order # <<>>) =>
              /\ IsSome(vs.selected)
              /\ IsSome(PositionOf(vs.order, Unwrap(vs.selected)))
              /\ \A i \in 1..Len(vs.order) : IsSome(FindById(tests, vs.order[i]))
        /\ \A r \in {view.transitioning_to, view.esc_transition,
                      view.post_load_transition} :
              (IsSome(r) /\ IsSome(Unwrap(r).id) /\ tests # <<>>) =>
                  IsSome(FindById(tests, Unwrap(Unwrap(r).id)))
        /\ \A i \in 1..Len(entities) :
              "RegularText" \in entities[i].tags =>
                  IsSome(u8_array_to_str(entities[i].text))
        /\ \A keys \in SUBSET Keys : ~(0 \in WrapIndexLengths(Here, keys))

\* A test chosen in a selection view is shown: the unwraps of the select
\* branch and of the Material arm have been passed.
C15_Witness ==
    /\ last.op = "view_system"
    /\ last.src = "selection_select"
    /\ view.view_state.tag = "Material"

-----------------------------------------------------------------------------
(* The escape transition                                                    *)

\* C16: the escape transition goes with the view state.  In a selection view
\* it is the main view; in the view of test id it is the selection view of
\* the category of that test with id selected; on the loading screen and in
\* the main view there is none.  So back, in a selection or test view,
\* always finds an escape transition and requests it.
C16_EscapeFollowsViewState ==
    LET vs == view.view_state
        esc == view.esc_transition
    IN  /\ vs.tag \in {"Loading", "MainView"} => esc = None
        /\ vs.tag = "MaterialSelection" => esc = Some(ToMainView)
        /\ vs.tag = "Material" =>
              /\ IsSome(FindById(tests, Unwrap(vs.id)))
              /\ esc = Some(ToMaterialSelection(
                           Unwrap(FindById(tests, Unwrap(vs.id))).material_type,
                           vs.id))
        /\ vs.tag \in {"MaterialSelection", "Material"} =>
              /\ IsSome(esc)
              /\ InputsResult(Here, tests, {"back"}).view.transitioning_to = esc

\* The PostProcessing test named by the startup argument is shown, and back
\* leads to the PostProcessing selection with that test selected.
C16_Witness ==
    /\ env.arg = Some(<<65>>)
    /\ view.view_state.tag = "Material"
    /\ view.view_state.id = Some(0)
    /\ tests[1].material_type = "PostProcessing"
    /\ view.esc_transition = Some(ToMaterialSelection("PostProcessing", Some(0)))

-----------------------------------------------------------------------------
(* Requests and input                                                       *)

\* The requests made by handle_inputs, as `last` records who made them.
InputRequesters ==
    {"main_select", "selection_select", "selection_back", "material_back"}

\* C17, as claimed: handle_inputs never runs while a request made by
\* handle_inputs or by the gate is pending.
C17_NoInputWhilePending ==
    (pc = "inputs" /\ last.src \in InputRequesters \cup {"handle_assets_loaded"})
        => ~IsSome(view.transitioning_to)

\* C17, amended: a request made by handle_inputs is executed by view_system
\* before handle_inputs runs again, and a request is executed once: the
\* system that follows a handle_inputs that left a request pending is
\* view_system, view_system runs only with a request pending, and it leaves
\* none pending and itself disabled.  handle_inputs meets a pending request
\* (the one of materials_setup or of the gate) on the loading screen only,
\* where it ignores the input.
C17_RequestsExecutedBeforeInput ==
    /\ []((pc = "inputs" /\ IsSome(view.transitioning_to)) =>
              /\ view.view_state.tag = "Loading"
              /\ ~(last.src \in InputRequesters))
    /\ [](pc = "view" => (IsSome(view.transitioning_to) /\ enabled.view_system))
    /\ [][pc = "view" =>
              (view'.transitioning_to = None /\ ~enabled'.view_system)]_vars
    /\ [][(pc = "inputs" /\ IsSome(view'.transitioning_to)) => pc' = "view"]_vars

\* handle_inputs is about to run again after the request it made in the main
\* view has been executed: nothing is pending and the selection view it asked
\* for is there.
C17_Witness ==
    /\ pc = "inputs"
    /\ last.op = "view_system"
    /\ last.executed
    /\ last.src = "main_select"
    /\ view.transitioning_to = None
    /\ view.view_state.tag = "MaterialSelection"

-----------------------------------------------------------------------------
(* One active test                                                          *)

\* The test systems that are enabled, by the name of the startup system.
EnabledTestSystems == enabled.startup \cup enabled.update

\* The registered tests that have a system enabled.
ActiveTests ==
    {k \in 1..Len(tests) : tests[k].startup_system_name \in EnabledTestSystems}

\* C18: one test is active at most.  The test systems that are enabled are
\* systems of one registered test at most, and while the view state is the
\* view of test id every test system that is enabled is a system of test id.
C18_OneActiveTest ==
    /\ Cardinality(ActiveTests) <= 1
    /\ view.view_state.tag = "Material" =>
          \A system \in EnabledTestSystems :
              \E k \in 1..Len(tests) :
                  /\ Some(tests[k].id) = view.view_state.id
                  /\ tests[k].startup_system_name = system

\* The second of several tests is shown and its update system runs.
C18_Witness ==
    /\ Len(tests) >= 2
    /\ view.view_state.tag = "Material"
    /\ view.view_state.id = Some(tests[2].id)
    /\ enabled.update = {tests[2].startup_system_name}

-----------------------------------------------------------------------------
(* text.rs on its own: a string is written to a [u8; N] and read back       *)

\* The bytes of the strings tried: NUL, "a", and the two bytes of U+00E9.
TextBytes == {0, 97, 195, 169}

\* The &str values of at most max bytes: the byte strings that are UTF-8.
Strings(max) ==
    {s \in UNION {[1..k -> TextBytes] : k \in 0..max} : ValidUtf8(s)}

\* All N bytes of the [u8; N] that is written without its padding.
Padded(N, a) == a \o [i \in 1..(N - Len(a)) |-> 0]

InitText ==
    /\ InitProgram
    /\ wrap = WrapIdle
    /\ conv \in [s : Strings(MaxStr), n : 0..MaxN, stage : {"given"},
                 array : {<<>>}, back : {None}]

\* str_to_u8_array::<N>(s)
TextToArray ==
    /\ conv.stage = "given"
    /\ conv' = [conv EXCEPT !.stage = "array",
                            !.array = Padded(conv.n, str_to_u8_array(conv.n, conv.s))]
    /\ UNCHANGED <<pc, holder, tests, regLog, view, entities, markers, enabled,
                   postprocesses, env, last, wrap>>

\* u8_array_to_str(&array)
ArrayToText ==
    /\ conv.stage = "array"
    /\ conv' = [conv EXCEPT !.stage = "read",
                            !.back = u8_array_to_str(conv.array)]
    /\ UNCHANGED <<pc, holder, tests, regLog, view, entities, markers, enabled,
                   postprocesses, env, last, wrap>>

NextText == TextToArray \/ ArrayToText

SpecText == InitText /\ [][NextText]_vars

\* C19: a string of at most N bytes that neither starts nor ends with NUL
\* comes back from u8_array_to_str(str_to_u8_array::<N>(s)) as it was: the
\* array has N bytes and its padding is not part of the string read back.
C19_TextRoundTrip ==
    /\ conv.stage \in {"array", "read"} => Len(conv.array) = conv.n
    /\ (/\ conv.stage = "read"
        /\ Len(conv.s) <= conv.n
        /\ conv.s # <<>> => (conv.s[1] # 0 /\ conv.s[Len(conv.s)] # 0))
           => conv.back = Some(conv.s)

\* "a\0é", four bytes, has been written to an array of five and read back.
C19_Witness ==
    /\ conv.stage = "read"
    /\ conv.s = <<97, 0, 195, 169>>
    /\ conv.n = 5
    /\ conv.back = Some(conv.s)

-----------------------------------------------------------------------------
(* One notification                                                         *)

\* A slot after the notification (t, m): resolved if it was pending with
\* ticket t, else as it was.
ResolvedBy(slot, t, m) ==
    IF PendingWithTicket(slot) /\ slot.text_id = t
    THEN [slot EXCEPT !.material_id = Some(m)] ELSE slot

\* The tests `after` are the tests `before` with the notification (t, m)
\* applied to every slot of every test, and nothing else of a test changed.
NotifiedBy(before, after, t, m) ==
    /\ Len(after) = Len(before)
    /\ \A k \in 1..Len(before) :
          /\ \A i \in SlotIndexes(before[k].maybe_loaded_materials)
                       \cup SlotIndexes(after[k].maybe_loaded_materials) :
                SlotAt(after[k].maybe_loaded_materials, i) =
                    ResolvedBy(SlotAt(before[k].maybe_loaded_materials, i), t, m)
          /\ after[k] = [before[k] EXCEPT !.maybe_loaded_materials =
                                              after[k].maybe_loaded_materials]

\* C20: one notification (t, m) resolves, in every registered test, every
\* slot that is pending with ticket t to material m, and changes no other
\* slot, no slot's place and no slot's category: so it is, whenever the
\* handler is about to run, for any notification that may arrive, and a run
\* of the handler with one event leaves the tests as some notification for a
\* loaded text does.
C20_NotificationResolvesItsTicket ==
    /\ [](pc = "events" =>
             \A t \in 1..env.next_text_id, m \in MaterialIds :
                 LET after == ApplyEvents(<<[text_id |-> t, material_id |-> m]>>,
                                          tests, markers.materials).tests
                 IN  NotifiedBy(tests, after, t, m))
    /\ [][(pc = "events" /\ env'.delivered = env.delivered + 1) =>
              \E t \in env.texts_loaded, m \in MaterialIds :
                  NotifiedBy(tests, tests', t, m)]_vars

\* One notification has resolved the slots of two tests that waited for
\* text 1, and has left the slot of the default material as it was.
C20_Witness ==
    /\ env.delivered = 1
    /\ Len(tests) = 2
    /\ tests[1].maybe_loaded_materials =
           <<[NewSlot("PostProcessing", 1) EXCEPT !.material_id = Some(2)]>>
    /\ tests[2].maybe_loaded_materials =
           <<[NewSlot("Sprite", 1) EXCEPT !.material_id = Some(2)],
             NewLoadedSlot("Sprite", DefaultSpriteMaterial)>>

-----------------------------------------------------------------------------
(* change_view on its own: after setup, any request is made and executed    *)

\* The requests TransitionTo has values for: with a registry, for the ids of
\* its tests, in either category; with none, for the id 0 that a test had.
ViewRequests ==
    LET ids == IF tests = <<>> THEN {0} ELSE {tests[k].id : k \in 1..Len(tests)}
    IN  {ToLoading, ToMainView}
        \cup {ToMaterialSelection(c, None) : c \in MaterialTypes}
        \cup {ToMaterialSelection(c, Some(id)) : c \in MaterialTypes, id \in ids}
        \cup {ToMaterial(c, id) : c \in MaterialTypes, id \in ids}

\* set_transition_to(request), then view_system: change_view, and the system
\* is off again.
ExecuteRequest(requests) ==
    /\ pc \in Range(PhaseOrder)
    /\ \E request \in requests :
         LET w1 == set_transition_to(Here, request)
             w2 == change_view(w1, tests)
             w3 == [w2 EXCEPT !.enabled.view_system = FALSE]
         IN  /\ Become(w3)
             /\ last' = [last EXCEPT !.op = "change_view",
                                     !.request = Some(request),
                                     !.executed = ~IsSome(w2.view.transitioning_to),
                                    !.tag = IF ~IsSome(w2.view.transitioning_to)
                                            THEN request.tag ELSE @]
    /\ UNCHANGED <<pc, holder, tests, regLog, markers, env, wrap, conv>>

NextView ==
    \/ turn_off_systems
    \/ turn_off_material_test_systems
    \/ SetupTextures
    \/ RegisterMaterial({NthName(Len(tests))}, MaterialTypes, MaxViewTests)
    \/ SetupFinish
    \/ ExecuteRequest(ViewRequests)

SpecView == Init /\ [][NextView]_vars

-----------------------------------------------------------------------------
(* A request for a test when no test is registered                          *)

\* The step executes a request of the variant `tag`.
Executes(tag) ==
    /\ last'.op = "change_view"
    /\ IsSome(last'.request)
    /\ Unwrap(last'.request).tag = tag

\* C21, as claimed: executing a request for a test while no test is
\* registered changes neither the view state nor the escape transition nor
\* the objects displayed.
C21_EmptyRegistryNoOp ==
    [][(Executes("Material") /\ tests = <<>>) =>
          /\ view'.view_state = view.view_state
          /\ view'.esc_transition = view.esc_transition
          /\ entities' = entities]_vars

\* C21, amended: executing a request for a test while no test is registered
\* leaves the view state, the escape transition, the test systems and the
\* post-processes as they were; the objects displayed are destroyed as in
\* every execution and none is spawned; the request stays pending.
C21_EmptyRegistryKeepsViewState ==
    [][(Executes("Material") /\ tests = <<>>) =>
          /\ view'.view_state = view.view_state
          /\ view'.esc_transition = view.esc_transition
          /\ entities' = Teardown(entities)
          /\ \A i \in 1..Len(entities') : entities'[i].tags \cap TeardownTags = {}
          /\ view'.transitioning_to = last'.request
          /\ enabled'.startup = enabled.startup
          /\ enabled'.update = enabled.update
          /\ postprocesses' = postprocesses]_vars

\* With no test registered, the main view was displayed and a request for
\* test 0 has been executed: the view state is still the main view, nothing
\* is displayed and the request is pending.
C21_Witness ==
    /\ tests = <<>>
    /\ last.op = "change_view"
    /\ last.request = Some(ToMaterial("Sprite", 0))
    /\ view.view_state = MainView("Sprite")
    /\ entities = <<>>
    /\ view.transitioning_to = last.request

-----------------------------------------------------------------------------
(* The pending request after an execution                                   *)

\* C22: after change_view has run with a request pending, whatever the
\* request and whatever the registry, no request is pending.
C22_ExecutionClearsPending ==
    [][last'.op = "change_view" => view'.transitioning_to = None]_vars

-----------------------------------------------------------------------------
(* Teardown                                                                 *)

\* What change_view spawns for the request pending in w, on an empty screen.
SpawnedFor(w, ts) == change_view([w EXCEPT !.entities = <<>>], ts).entities

\* C23: every displayed object carries a component the despawn loops of
\* change_view look for, and when view_system executes a pending request the
\* objects displayed afterwards are exactly the ones change_view spawned for
\* that request: nothing displayed before the transition is left.
C23_NothingSurvivesTransition ==
    /\ [](\A i \in 1..Len(entities) : entities[i].tags \cap TeardownTags # {})
    /\ [][pc = "view" /\ IsSome(view.transitioning_to)
            => entities' = SpawnedFor(Here, tests)]_vars

\* A test's objects and the FPS counter are on screen when the request to go
\* back to the selection view is about to be executed.
C23_Witness ==
    /\ pc = "view"
    /\ IsSome(view.transitioning_to)
    /\ Unwrap(view.transitioning_to).tag = "MaterialSelection"
    /\ HasFpsCounter(entities)
    /\ \E i \in 1..Len(entities) : "TextureRender" \in entities[i].tags

-----------------------------------------------------------------------------
(* Leaving a test                                                           *)

\* C24: when the request executed last was ToMainView or ToMaterialSelection
\* and no request is pending, no startup system and no update system of any
\* test is enabled and no post-processing effect is registered.
C24_MenusRunNoTest ==
    last.tag \in {"MainView", "MaterialSelection"} /\ ~IsSome(view.transitioning_to)
        => EnabledTestSystems = {} /\ postprocesses = {}

\* The selection view of the post-processing tests, entered by going back
\* from a test whose effect was registered and whose update system ran.
C24_Witness ==
    /\ last.tag = "MaterialSelection"
    /\ last.op = "view_system"
    /\ last.src = "material_back"
    /\ ~IsSome(view.transitioning_to)
    /\ view.view_state.tag = "MaterialSelection"
    /\ view.view_state.material_type = "PostProcessing"

-----------------------------------------------------------------------------
(* The id a selection request names                                         *)

\* An Underline entity is displayed under the label at label_pos.
UnderlinedAt(ents, label_pos) ==
    \E i \in 1..Len(ents) :
        /\ "Underline" \in ents[i].tags
        /\ ents[i].pos = <<label_pos[1], label_pos[2] - UnderlineOffset>>

\* C25: executing ToMaterialSelection(c, Some(id)) selects id when id is among
\* the tests of type c; when it is not, the first id of the list is selected
\* and the underline is under the first label.
C25_SelectsOnlyListedId ==
    [][Executes("MaterialSelection") /\ IsSome(Unwrap(last'.request).id)
        => LET vs == view'.view_state
               id == Unwrap(Unwrap(last'.request).id)
           IN  IF id \in Range(vs.order) THEN vs.selected = Some(id)
               ELSE vs.order # <<>>
                    => /\ vs.selected = Some(vs.order[1])
                       /\ UnderlinedAt(entities', GridPosition(0))]_vars

-----------------------------------------------------------------------------
(* Keys in the main view                                                    *)

\* Where the MainView arm of change_view puts the label of a category.
MainLabelPosition(material_type) ==
    IF material_type = "Sprite" THEN <<25, 60>> ELSE <<75, 60>>

Underlines(ents) == {i \in 1..Len(ents) : "Underline" \in ents[i].tags}

\* C26: in MainView(c), for every set of keys handle_inputs may find pressed:
\* with select, ToMaterialSelection(c, None) is requested and the view state
\* stays, whatever left and right are; without select and with exactly one of
\* left and right, the view state is MainView of the other category and the
\* one underline is under that category's label; otherwise nothing changes.
C26_MainViewKeys ==
    (pc = "inputs" /\ view.view_state.tag = "MainView") =>
        \A keys \in SUBSET Keys :
            LET c == view.view_state.material_type
                other == IF c = "Sprite" THEN "PostProcessing" ELSE "Sprite"
                after == InputsResult(Here, tests, keys)
            IN  IF "select" \in keys
                THEN /\ after.view.transitioning_to = Some(ToMaterialSelection(c, None))
                     /\ after.view.view_state = view.view_state
                     /\ after.entities = entities
                ELSE IF ("left" \in keys) # ("right" \in keys)
                THEN /\ after.view = [view EXCEPT !.view_state = MainView(other)]
                     /\ Cardinality(Underlines(after.entities)) = 1
                     /\ UnderlinedAt(after.entities, MainLabelPosition(other))
                     /\ after.enabled = enabled
                ELSE after = Here

\* handle_inputs has moved the highlight to the second category.
C26_Witness ==
    /\ last.op = "handle_inputs"
    /\ pc = "inputs"
    /\ view.view_state = MainView("PostProcessing")
    /\ UnderlinedAt(entities, MainLabelPosition("PostProcessing"))

-----------------------------------------------------------------------------
(* Keys in the selection view                                               *)

\* C27: in a selection view, for every set of keys handle_inputs may find
\* pressed: with back, the escape transition is requested and no startup
\* system is enabled, select or not; without back and with select, a list
\* that is not empty gives the request ToMaterial(category, selected) and
\* enables the startup system of the selected test and of no other, and the
\* selection does not move whatever direction keys are pressed; an empty list
\* gives no change at all.
C27_SelectionViewKeys ==
    (pc = "inputs" /\ view.view_state.tag = "MaterialSelection") =>
        \A keys \in SUBSET Keys :
            LET vs == view.view_state
                after == InputsResult(Here, tests, keys)
            IN  IF "back" \in keys
                THEN /\ after.view.transitioning_to = view.esc_transition
                     /\ IsSome(view.esc_transition)
                     /\ after.view.view_state = vs
                     /\ after.enabled.startup = enabled.startup
                ELSE IF "select" \in keys /\ vs.order # <<>>
                THEN /\ after.view.transitioning_to =
                            Some(ToMaterial(vs.material_type, Unwrap(vs.selected)))
                     /\ after.view.view_state = vs
                     /\ after.entities = entities
                     /\ \E k \in 1..Len(tests) :
                            /\ tests[k].id = Unwrap(vs.selected)
                            /\ after.enabled.startup = {tests[k].startup_system_name}
                     /\ after.enabled.update = enabled.update
                ELSE vs.order = <<>> => after = Here

\* Select has been pressed on the second test of a list: its startup system
\* alone is enabled and the request for it is pending.
C27_Witness ==
    /\ last.op = "handle_inputs" /\ last.src = "selection_select"
    /\ view.view_state.tag = "MaterialSelection"
    /\ Len(view.view_state.order) >= 2
    /\ view.view_state.selected = Some(view.view_state.order[2])
    /\ view.transitioning_to =
           Some(ToMaterial(view.view_state.material_type, view.view_state.order[2]))
    /\ Cardinality(enabled.startup) = 1

-----------------------------------------------------------------------------
(* Back from a test                                                         *)

\* C28: in the view of test id, handle_inputs changes nothing unless back is
\* pressed, and the request back makes, once view_system executes it, gives
\* MaterialSelection(c, Some(id), ids) with c the type of test id and ids the
\* ids of the tests of type c, id among them, and the one underline under the
\* label of test id.
C28_BackFromTest ==
    /\ []((pc = "inputs" /\ view.view_state.tag = "Material") =>
            \A keys \in SUBSET (Keys \ {"back"}) :
                InputsResult(Here, tests, keys) = Here)
    /\ [][(pc = "view" /\ view.view_state.tag = "Material"
            /\ IsSome(view.transitioning_to))
           => LET id == Unwrap(view.view_state.id)
                  k == CHOOSE k \in 1..Len(tests) : tests[k].id = id
                  c == tests[k].material_type
                  vs == view'.view_state
              IN  /\ last.src = "material_back"
                  /\ vs.tag = "MaterialSelection"
                  /\ vs.material_type = c
                  /\ vs.selected = Some(id)
                  /\ id \in Range(vs.order)
                  /\ Range(vs.order) =
                         {tests[m].id : m \in {m \in 1..Len(tests) :
                                                  tests[m].material_type = c}}
                  /\ Cardinality(Underlines(entities')) = 1
                  /\ UnderlinedAt(entities',
                                  GridPosition(Unwrap(PositionOf(vs.order, id))))
                  /\ \E i \in 1..Len(entities') :
                        /\ "InteractiveText" \in entities'[i].tags
                        /\ entities'[i].pos =
                               GridPosition(Unwrap(PositionOf(vs.order, id)))
                        /\ u8_array_to_str(entities'[i].text)
                               = Some(TestName(tests[k]))]_vars

\* Back from the second test of its list: the selection view shows it
\* selected.
C28_Witness ==
    /\ last.op = "view_system" /\ last.executed /\ last.src = "material_back"
    /\ view.view_state.tag = "MaterialSelection"
    /\ Len(view.view_state.order) >= 2
    /\ view.view_state.selected = Some(view.view_state.order[2])
    /\ UnderlinedAt(entities, GridPosition(1))

-----------------------------------------------------------------------------
(* The main view                                                            *)

\* The labels the user can select: the InteractiveText entities showing text.
LabelsShowing(ents, text) ==
    {i \in 1..Len(ents) : /\ "InteractiveText" \in ents[i].tags
                          /\ u8_array_to_str(ents[i].text) = Some(text)}

\* C29: in whatever state the program is, executing ToMainView gives
\* MainView(Sprite) with no escape transition and no request pending, one
\* selectable label for each material type and no other, and exactly one
\* underline, under the label of Sprite.
C29_MainViewIsReset ==
    [](LET after == change_view(set_transition_to(Here, ToMainView), tests)
          labels == {i \in 1..Len(after.entities) :
                        "InteractiveText" \in after.entities[i].tags}
      IN  /\ after.view.view_state = MainView("Sprite")
          /\ after.view.esc_transition = None
          /\ after.view.transitioning_to = None
          /\ \A c \in MaterialTypes :
                /\ Cardinality(LabelsShowing(after.entities,
                                             title_from_material_type(c))) = 1
                /\ \A i \in LabelsShowing(after.entities, title_from_material_type(c)) :
                      after.entities[i].pos = MainLabelPosition(c)
          /\ Cardinality(labels) = Cardinality(MaterialTypes)
          /\ Cardinality(Underlines(after.entities)) = 1
          /\ UnderlinedAt(after.entities, MainLabelPosition("Sprite"))
          /\ (last.op = "view_system" /\ last.executed /\ last.tag = "MainView")
                => Here = [after EXCEPT !.enabled.view_system = FALSE])

\* view_system has executed the ToMainView that back requested in the
\* selection view of the post-processing tests, which has an escape
\* transition and another category.
C29_Witness ==
    /\ last.op = "view_system" /\ last.executed /\ last.tag = "MainView"
    /\ last.src = "selection_back" /\ last.main = "PostProcessing"
    /\ view.view_state = MainView("Sprite")
    /\ ~IsSome(view.esc_transition)

-----------------------------------------------------------------------------
(* After the gate has opened                                                *)

NoMarkers == [textures |-> {}, texts |-> {}, materials |-> EmptyBag]

\* C30: the step in which handle_assets_loaded opens leaves no texture, text
\* or material marker and leaves handle_assets_loaded and
\* handle_material_id_from_text_id_events disabled; from then on neither of
\* them runs or is enabled again, no marker is spawned, the post-load
\* transition stays unset and no slot of any test changes.
C30_GateOpensOnce ==
    /\ [][GateOpens =>
            /\ markers' = NoMarkers
            /\ ~enabled'.handle_assets_loaded
            /\ ~enabled'.handle_material_id_from_text_id_events
            /\ IsSome(view'.transitioning_to)]_vars
    /\ [][last.opened =>
            /\ last'.opened
            /\ pc \notin {"events", "gate"}
            /\ last'.op \notin {"handle_assets_loaded",
                                 "handle_material_id_from_text_id_events"}
            /\ ~enabled'.handle_assets_loaded
            /\ ~enabled'.handle_material_id_from_text_id_events
            /\ markers' = NoMarkers
            /\ view'.post_load_transition = None
            /\ tests' = tests]_vars

\* The gate has opened for a registry of two tests after a notification had
\* spawned a material marker, and the request it made has been executed since.
C30_Witness ==
    /\ last.opened
    /\ last.op = "view_system" /\ last.executed
    /\ markers = NoMarkers
    /\ Len(tests) >= 2
    /\ env.delivered >= 1
    /\ view.view_state.tag = "MainView"

-----------------------------------------------------------------------------
(* Entering a test                                                          *)

\* The step makes the view state Material(id).
Enters(id) ==
    /\ view.view_state.tag # "Material"
    /\ view'.view_state.tag = "Material"
    /\ view'.view_state.id = Some(id)

\* C31: whenever the view state becomes Material(id), the startup system of
\* test id is enabled, whether the request came from select in the selection
\* view or from the post-load transition.
C31_StartupEnabledOnEntry ==
    [][\A k \in 1..Len(tests) :
          Enters(tests[k].id) => tests[k].startup_system_name \in enabled'.startup]_vars

-----------------------------------------------------------------------------
(* Selection changes in place                                               *)

\* The entities are the same but for the position of Underline entities.
SameButUnderline(before, after) ==
    /\ Len(after) = Len(before)
    /\ \A i \in 1..Len(before) :
          IF "Underline" \in before[i].tags
          THEN after[i] = [before[i] EXCEPT !.pos = after[i].pos]
          ELSE after[i] = before[i]

\* C32: a run of handle_inputs that changes the view state in place (the
\* category of the main view, the selected id of a selection view) makes no
\* request and leaves the escape and post-load transitions, the category and
\* the id list of a selection view, the registry, the enabled systems, the
\* post-processes and every entity but the position of the underline as they
\* were.
C32_InPlaceChangeIsLocal ==
    [][(pc = "inputs" /\ view'.view_state # view.view_state) =>
          /\ view' = [view EXCEPT !.view_state = view'.view_state]
          /\ view'.view_state.tag = view.view_state.tag
          /\ view.view_state.tag \in {"MainView", "MaterialSelection"}
          /\ view.view_state.tag = "MaterialSelection" =>
                view'.view_state =
                    [view.view_state EXCEPT !.selected = view'.view_state.selected]
          /\ tests' = tests
          /\ holder' = holder
          /\ enabled' = enabled
          /\ postprocesses' = postprocesses
          /\ markers' = markers
          /\ SameButUnderline(entities, entities')
          /\ entities' # entities]_vars

\* handle_inputs has moved the selection of the post-processing tests to the
\* second of them, and nothing is pending.
C32_Witness ==
    /\ last.op = "handle_inputs" /\ last.src = "main_select"
    /\ pc = "inputs"
    /\ ~IsSome(view.transitioning_to)
    /\ view.view_state.tag = "MaterialSelection"
    /\ view.view_state.material_type = "PostProcessing"
    /\ Len(view.view_state.order) >= 2
    /\ view.view_state.selected = Some(view.view_state.order[2])

-----------------------------------------------------------------------------
(* The underline                                                            *)

\* C33: there is never more than one underline; in the main view there is
\* exactly one, under the label of the highlighted category, and in a
\* selection view whose id list is not empty there is exactly one, under the
\* label of the selected test, whatever direction keys have been pressed
\* since the view was entered.
C33_OneUnderlineUnderSelection ==
    [](LET vs == view.view_state
       IN  /\ Cardinality(Underlines(entities)) <= 1
           /\ vs.tag = "MainView" =>
                 /\ Cardinality(Underlines(entities)) = 1
                 /\ UnderlinedAt(entities, MainLabelPosition(vs.material_type))
           /\ (vs.tag = "MaterialSelection" /\ vs.order # <<>>) =>
                 /\ Cardinality(Underlines(entities)) = 1
                 /\ IsSome(vs.selected)
                 /\ IsSome(PositionOf(vs.order, Unwrap(vs.selected)))
                 /\ UnderlinedAt(entities,
                        GridPosition(Unwrap(PositionOf(vs.order, Unwrap(vs.selected))))))

\* Direction keys have taken the selection to the third test of the list and
\* then on to the second.
C33_Witness ==
    /\ last.op = "handle_inputs"
    /\ view.view_state.tag = "MaterialSelection"
    /\ Len(view.view_state.order) = 3
    /\ view.view_state.selected = Some(view.view_state.order[3])
    /\ UnderlinedAt(entities, GridPosition(2))
    /\ Cardinality(Underlines(entities)) = 1

-----------------------------------------------------------------------------
(* The list of a selection view                                             *)

\* C34: in every selection view the program reaches, the id list has no
\* duplicates and holds ids of registered tests of the view's type only; no
\* id is selected exactly when the list is empty, and a selected id is in
\* the list.
C34_SelectionListWellFormed ==
    [](LET vs == view.view_state
       IN  vs.tag = "MaterialSelection" =>
             /\ \A i, j \in 1..Len(vs.order) : vs.order[i] = vs.order[j] => i = j
             /\ \A i \in 1..Len(vs.order) :
                   \E k \in 1..Len(tests) :
                       /\ tests[k].id = vs.order[i]
                       /\ tests[k].material_type = vs.material_type
             /\ vs.selected = None <=> vs.order = <<>>
             /\ IsSome(vs.selected) => Unwrap(vs.selected) \in Range(vs.order))

\* The selection view of a type no registered test has: the list is empty and
\* nothing is selected.
C34_Witness ==
    /\ last.op = "view_system" /\ last.executed
    /\ view.view_state.tag = "MaterialSelection"
    /\ view.view_state.order = <<>>
    /\ view.view_state.selected = None
    /\ Len(tests) >= 2

-----------------------------------------------------------------------------
(* Leaving the loading screen                                               *)

\* C35: the view state is other than Loading only after handle_assets_loaded
\* has opened (it is disabled and no marker is left), and a view state other
\* than Loading is never followed by Loading.
C35_LoadingOnlyBeforeGate ==
    /\ [](view.view_state.tag # "Loading" =>
             /\ last.opened
             /\ ~enabled.handle_assets_loaded
             /\ markers = NoMarkers)
    /\ [][view.view_state.tag # "Loading" => view'.view_state.tag # "Loading"]_vars

\* After the load the user has gone into a test and pressed back: requests
\* and inputs have followed the leaving of Loading.
C35_Witness ==
    /\ last.opened
    /\ last.op = "handle_inputs" /\ last.src = "material_back"
    /\ view.view_state.tag = "Material"
    /\ IsSome(view.transitioning_to)

-----------------------------------------------------------------------------
(* Progress of the load                                                     *)

\* The load with a small registry, every interleaving of the asset managers'
\* progress and an idle user.
NextLoad ==
    \/ turn_off_systems
    \/ turn_off_material_test_systems
    \/ SetupTextures
    \/ RegisterMaterial({NthName(Len(tests))}, {"PostProcessing"}, MaxLoadTests)
    \/ RegisterTest({NthName(Len(tests))}, {"Sprite"}, {SharedSlots}, MaxLoadTests)
    \/ SetupFinish
    \/ handle_material_id_from_text_id_events(AnyEvents, MaxLoadEvents)
    \/ handle_assets_loaded(AnyProgress)
    \/ fps_system
    \/ handle_inputs({{}})
    \/ view_system

\* The engine keeps running frames: a system whose turn it is runs.
SpecLoad == Init /\ [][NextLoad]_vars /\ WF_vars(NextLoad)

\* Every texture and text that was requested reports loaded, a notification
\* has been delivered and the material of every notification has a pipeline
\* that reports loaded.
EverythingLoaded ==
    /\ pc \in Range(PhaseOrder)
    /\ env.delivered >= 1
    /\ are_all_ids_loaded(env.textures_loaded, markers.textures)
    /\ are_all_ids_loaded(env.texts_loaded, markers.texts)
    /\ are_all_ids_loaded(env.pipelines_loaded, BagToSet(markers.materials))

\* C36: if from some frame on everything requested reports loaded and a
\* notification has been delivered, the view state eventually is other than
\* Loading.
C36_LoadingEnds ==
    <>[]EverythingLoaded => <>(view.view_state.tag # "Loading")

\* Everything has loaded, two notifications late, and the main view is shown.
C36_Witness ==
    /\ EverythingLoaded
    /\ env.delivered >= 2
    /\ last.opened
    /\ view.view_state.tag = "MainView"

-----------------------------------------------------------------------------
(* The way back                                                             *)

\* A frame in which back alone is pressed: handle_inputs, then view_system if
\* handle_inputs has enabled it.
BackPress(w, ts) ==
    LET w1 == InputsResult(w, ts, {"back"})
    IN  IF w1.enabled.view_system
        THEN [change_view(w1, ts) EXCEPT !.enabled.view_system = FALSE]
        ELSE w1

\* C37: whenever handle_inputs is about to run in a view state other than
\* Loading, two frames with back pressed end in the main view: a test's view
\* gives a selection view and then the main view, a selection view gives the
\* main view, and in the main view back changes nothing.
C37_TwoBacksToMainView ==
    []((pc = "inputs" /\ view.view_state.tag # "Loading") =>
         LET once == BackPress(Here, tests)
             twice == BackPress(once, tests)
             tag == view.view_state.tag
         IN  /\ twice.view.view_state.tag = "MainView"
             /\ ~IsSome(twice.view.transitioning_to)
             /\ tag = "Material" => once.view.view_state.tag = "MaterialSelection"
             /\ tag = "MaterialSelection" => once.view.view_state.tag = "MainView"
             /\ tag = "MainView" => InputsResult(Here, tests, {"back"}) = Here)

\* The main view reached from a test by back pressed in the test and again
\* in the selection view.
C37_Witness ==
    /\ last.op = "view_system" /\ last.executed
    /\ last.src = "selection_back" /\ last.from = "material_back"
    /\ view.view_state.tag = "MainView"

-----------------------------------------------------------------------------
(* Columns of the selection grid                                            *)

\* C38: in a selection view whose id list has even length, up alone and down
\* alone select an id whose index has the parity of the index selected
\* before, and the underline stays in its column (25% for even indexes, 75%
\* for odd ones), also when the move wraps over the first or the last row.
C38_VerticalKeepsColumn ==
    [](LET vs == view.view_state
       IN  (vs.tag = "MaterialSelection" /\ vs.order # <<>>
            /\ Len(vs.order) % 2 = 0) =>
             \A key \in {"up", "down"} :
                 LET i == Unwrap(PositionOf(vs.order, Unwrap(vs.selected)))
                     after == InputsResult(Here, tests, {key})
                     avs == after.view.view_state
                     j == Unwrap(PositionOf(avs.order, Unwrap(avs.selected)))
                 IN  /\ j % 2 = i % 2
                     /\ j = (i + (IF key = "up" THEN -2 ELSE 2)) % Len(vs.order)
                     /\ GridPosition(j)[1] = GridPosition(i)[1]
                     /\ GridPosition(j)[1] = IF i % 2 = 0 THEN 25 ELSE 75
                     /\ UnderlinedAt(after.entities, GridPosition(j)))

\* A list of four tests with the fourth selected: down wraps from the last
\* row to the first.
C38_Witness ==
    /\ last.op = "handle_inputs"
    /\ pc = "inputs"
    /\ view.view_state.tag = "MaterialSelection"
    /\ Len(view.view_state.order) = 4
    /\ view.view_state.selected = Some(view.view_state.order[4])
    /\ UnderlinedAt(entities, GridPosition(3))

-----------------------------------------------------------------------------
(* The slots of a registered test                                           *)

\* C39: a test registered with m slots holds the first min(m, SlotCap) of
\* them, in the order given, in its first min(m, SlotCap) places, none of them
\* empty, and default (empty) slots in every later place; so the place where
\* the loop of update_maybe_loaded_materials breaks is after every slot that
\* was stored, and no slot with a ticket lies at or behind it.
C39_SlotsContiguous ==
    \A k \in 1..Len(tests) :
        LET given == regLog[k].given
            stored == tests[k].maybe_loaded_materials
            kept == IF Len(given) <= SlotCap THEN Len(given) ELSE SlotCap
        IN  /\ \A i \in 1..SlotCap :
                  SlotAt(stored, i) = IF i <= kept THEN given[i] ELSE DefaultSlot
            /\ \A i \in 1..kept : ~IsEmptySlot(SlotAt(stored, i))
            /\ \A i \in (kept + 1)..SlotCap : IsEmptySlot(SlotAt(stored, i))
            /\ FirstEmpty(stored) = kept + 1
            /\ \A i \in 1..SlotCap :
                  SlotAt(stored, i).text_id # MISSING_TEXT_ID => i < FirstEmpty(stored)

\* A test registered with one slot more than the array holds, after a test
\* that waits for a text.
C39_Witness ==
    \E k \in 2..Len(tests) :
        /\ Len(regLog[k].given) = SlotCap + 1
        /\ Len(tests[k].maybe_loaded_materials) = SlotCap
        /\ PendingWithTicket(SlotAt(tests[1].maybe_loaded_materials, 1))

====
